---- MODULE Spec2Model ----
(***************************************************************************)
(* Model of the JerryScript debugger protocol handler of the IoT.js        *)
(* VS Code extension (class JerryDebugProtocolHandler).                    *)
(*                                                                         *)
(* Conventions                                                             *)
(*   - a byte array (Uint8Array) is a sequence of naturals 0..255; JS      *)
(*     index i is TLA+ index i+1;                                          *)
(*   - a string is the sequence of its UTF-16 code units;                  *)
(*   - an optional value (undefined / null in the source) is a sequence    *)
(*     of length at most one: None is absent, Some(x) is present;          *)
(*   - ParsedFunction and Breakpoint objects live in two heaps indexed by  *)
(*     allocation order; a reference is the index.                         *)
(***************************************************************************)
EXTENDS Integers, Sequences, FiniteSets, TLC

VARIABLES
  handler,          \* fields of the JerryDebugProtocolHandler instance
  parsedFunctions,  \* heap of ParsedFunction objects
  breakpoints,      \* heap of Breakpoint objects
  delegate,         \* names of the callbacks the delegate provides
  sent,             \* packets given to debuggerClient.send in the last step
  calls,            \* delegate callbacks invoked in the last step, in order
  settled,          \* request promises resolved / rejected in the last step
  last,             \* the operation performed in the last step
  configSeen,       \* history: a CONFIGURATION frame has been received
  fatalReported,    \* history: abort() has run at least once
  hung,             \* the handler is stuck in a loop that never ends
  closed,           \* history: the transport has reported its close
  serial,           \* the JerryDebuggerSerialClient instance and its port
  applied           \* the JerryUtils call under study: arguments, result

vars == <<handler, parsedFunctions, breakpoints, delegate, sent, calls,
          settled, last, configSeen, fatalReported, hung, closed, serial,
          applied>>

----------------------------------------------------------------------------
(* Bounds of the model *)

\* scripts promoted into the line lists
MaxScripts == 1
\* depth of the parser stack
MaxStack == 2
\* ParsedFunction objects ever created
MaxFunctions == 2
\* entries of a parser frame's lines / offsets
MaxList == 2
\* bytes held in a reassembly buffer
MaxBuf == 2
\* requests waiting in requestQueue
MaxQueue == 2
\* value of evalsPending
MaxEvals == 1
\* value of -evalsPending
MaxNegEvals == 0
\* value of nextBreakpointIndex
MaxBreakpointIndex == 2
\* sends of one step answered independently
MaxSends == 1
\* entries of the backtrace accumulator
MaxBacktrace == 2
\* largest maxMessageSize of the sessions that build packets
MaxMessageSize == 8
\* code units of an expression that is cut into packets
MaxExpression == 2
\* sends of one fragmented command answered independently
MaxFragments == 3

----------------------------------------------------------------------------
(* Protocol constants.  Their values are defined in                         *)
(* JerryProtocolConstants.ts; the handler uses them by name only, and the   *)
(* model needs the tags of one direction to differ from each other.         *)

JERRY_DEBUGGER_VERSION == 4

JERRY_DEBUGGER_CONFIGURATION == 1
JERRY_DEBUGGER_BYTE_CODE_CP == 3
JERRY_DEBUGGER_PARSE_FUNCTION == 4
JERRY_DEBUGGER_BREAKPOINT_LIST == 5
JERRY_DEBUGGER_BREAKPOINT_OFFSET_LIST == 6
JERRY_DEBUGGER_SOURCE_CODE == 7
JERRY_DEBUGGER_SOURCE_CODE_END == 8
JERRY_DEBUGGER_SOURCE_CODE_NAME == 9
JERRY_DEBUGGER_SOURCE_CODE_NAME_END == 10
JERRY_DEBUGGER_FUNCTION_NAME == 11
JERRY_DEBUGGER_FUNCTION_NAME_END == 12
JERRY_DEBUGGER_RELEASE_BYTE_CODE_CP == 14
JERRY_DEBUGGER_BREAKPOINT_HIT == 16
JERRY_DEBUGGER_EXCEPTION_HIT == 17
JERRY_DEBUGGER_EXCEPTION_STR == 18
JERRY_DEBUGGER_EXCEPTION_STR_END == 19
JERRY_DEBUGGER_BACKTRACE == 20
JERRY_DEBUGGER_BACKTRACE_END == 21
JERRY_DEBUGGER_EVAL_RESULT == 22
JERRY_DEBUGGER_EVAL_RESULT_END == 23
JERRY_DEBUGGER_WAIT_FOR_SOURCE == 24

JERRY_DEBUGGER_FREE_BYTE_CODE_CP == 101
JERRY_DEBUGGER_UPDATE_BREAKPOINT == 102
JERRY_DEBUGGER_STOP == 106
JERRY_DEBUGGER_CLIENT_SOURCE == 108
JERRY_DEBUGGER_CLIENT_SOURCE_PART == 109
JERRY_DEBUGGER_NO_MORE_SOURCES == 110
JERRY_DEBUGGER_CONTEXT_RESET == 111
JERRY_DEBUGGER_CONTINUE == 112
JERRY_DEBUGGER_STEP == 113
JERRY_DEBUGGER_NEXT == 114
JERRY_DEBUGGER_FINISH == 115
JERRY_DEBUGGER_GET_BACKTRACE == 116
JERRY_DEBUGGER_EVAL == 117
JERRY_DEBUGGER_EVAL_PART == 118

JERRY_DEBUGGER_EVAL_EVAL == 0
JERRY_DEBUGGER_EVAL_OK == 1

----------------------------------------------------------------------------
(* Generic helpers *)

None == << >>
Some(x) == << x >>
IsSome(o) == Len(o) > 0
Get(o) == o[1]

Min(a, b) == IF a < b THEN a ELSE b

\* JS Array.prototype.slice(from, to) on a sequence (JS indices, to exclusive)
Slice(s, from, to) ==
  LET f == IF from < 0 THEN 0 ELSE from
      t == Min(to, Len(s))
  IN  IF t <= f THEN << >> ELSE [i \in 1..(t - f) |-> s[f + i]]

\* the elements of a finite set of integers in ascending order (the order in
\* which JS enumerates integer-like property keys)
RECURSIVE SortedKeys(_)
SortedKeys(S) ==
  IF S = {} THEN << >>
  ELSE LET m == CHOOSE x \in S : \A y \in S : x <= y
       IN  <<m>> \o SortedKeys(S \ {m})

\* f with key k set to v / with key k deleted (JS object used as a map)
MapSet(f, k, v) == [x \in (DOMAIN f) \cup {k} |-> IF x = k THEN v ELSE f[x]]
MapDel(f, k) == [x \in (DOMAIN f) \ {k} |-> f[x]]
EmptyMap == [x \in {} |-> 0]

\* key under which JS stores a property whose key expression is undefined
UndefinedKey == -1

----------------------------------------------------------------------------
(* JerryUtils: byte codec *)

getUint32(littleEndian, array, offset) ==
  IF littleEndian
    THEN array[offset + 1] + array[offset + 2] * 256
         + array[offset + 3] * 65536 + array[offset + 4] * 16777216
    ELSE array[offset + 1] * 16777216 + array[offset + 2] * 65536
         + array[offset + 3] * 256 + array[offset + 4]

getUint16(littleEndian, array, offset) ==
  IF littleEndian
    THEN array[offset + 1] + array[offset + 2] * 256
    ELSE array[offset + 1] * 256 + array[offset + 2]

setUint32(littleEndian, value) ==
  LET b0 == value % 256
      b1 == (value \div 256) % 256
      b2 == (value \div 65536) % 256
      b3 == (value \div 16777216) % 256
  IN  IF littleEndian THEN <<b0, b1, b2, b3>> ELSE <<b3, b2, b1, b0>>

\* setUint16 writing the low byte first whatever the byte order
setUint16LowFirst(littleEndian, value) ==
  <<value % 256, (value \div 256) % 256>>

setUint16(littleEndian, value) ==
  LET b0 == value % 256
      b1 == (value \div 256) % 256
  IN  IF littleEndian THEN <<b0, b1>> ELSE <<b1, b0>>

\* size in bytes of one format character
charSize(config, c) ==
  IF c = "B" THEN 1 ELSE IF c = "I" THEN 4 ELSE config.cpointerSize

RECURSIVE getFormatSize(_, _)
getFormatSize(config, format) ==
  IF format = << >> THEN 0
  ELSE charSize(config, Head(format)) + getFormatSize(config, Tail(format))

\* decodeMessage(config, format, message, offset): [ok, vals]; ok = FALSE
\* stands for the thrown Error
RECURSIVE decodeFields(_, _, _, _)
decodeFields(config, format, message, offset) ==
  IF format = << >> THEN << >>
  ELSE LET c == Head(format)
           v == IF c = "B" THEN message[offset + 1]
                ELSE IF c = "C" /\ config.cpointerSize = 2
                  THEN getUint16(config.littleEndian, message, offset)
                  ELSE getUint32(config.littleEndian, message, offset)
       IN  <<v>> \o decodeFields(config, Tail(format), message,
                                 offset + charSize(config, c))

decodeMessage(config, format, message, offset) ==
  IF (\E i \in 1..Len(format) :
        format[i] = "C" /\ config.cpointerSize \notin {2, 4})
     \/ offset + getFormatSize(config, format) > Len(message)
    THEN [ok |-> FALSE, vals |-> << >>]
    ELSE [ok |-> TRUE, vals |-> decodeFields(config, format, message, offset)]

fieldInRange(config, c, v) ==
  /\ v >= 0
  /\ IF c = "B" THEN v < 256
     ELSE IF c = "C" /\ config.cpointerSize = 2 THEN v < 65536
     ELSE v \div 65536 < 65536

RECURSIVE encodeFields(_, _, _)
encodeFields(config, format, values) ==
  IF format = << >> THEN << >>
  ELSE LET c == Head(format)
           v == Head(values)
           b == IF c = "B" THEN <<v>>
                ELSE IF c = "C" /\ config.cpointerSize = 2
                  THEN setUint16(config.littleEndian, v)
                  ELSE setUint32(config.littleEndian, v)
       IN  b \o encodeFields(config, Tail(format), Tail(values))

\* encodeMessage(config, format, values): [ok, bytes]; every value is an
\* optional integer (None is the JS value undefined)
encodeMessage(config, format, values) ==
  IF \/ Len(values) # Len(format)
     \/ \E i \in 1..Len(format) :
          \/ format[i] = "C" /\ config.cpointerSize \notin {2, 4}
          \/ ~IsSome(values[i])
          \/ ~fieldInRange(config, format[i], Get(values[i]))
    THEN [ok |-> FALSE, bytes |-> << >>]
    ELSE [ok |-> TRUE,
          bytes |-> encodeFields(config, format,
                                 [i \in 1..Len(values) |-> Get(values[i])])]

----------------------------------------------------------------------------
(* JerryUtils: CESU-8 and reassembly *)

\* cesu8ToString(array): array is an optional byte array
RECURSIVE cesu8Decode(_)
cesu8Decode(a) ==
  IF a = << >> THEN << >>
  ELSE LET chr == a[1]
       IN  IF chr < 128 THEN <<chr>> \o cesu8Decode(Tail(a))
           ELSE IF (chr \div 32) % 2 = 1
             THEN IF Len(a) < 3 THEN << >>
                  ELSE <<(chr % 16) * 4096 + (a[2] % 64) * 64 + (a[3] % 64)>>
                       \o cesu8Decode(Slice(a, 3, Len(a)))
             ELSE IF Len(a) < 2 THEN << >>
                  ELSE <<(chr % 32) * 64 + (a[2] % 64)>>
                       \o cesu8Decode(Slice(a, 2, Len(a)))

cesu8ToString(array) ==
  IF IsSome(array) THEN cesu8Decode(Get(array)) ELSE << >>

\* an encoder that knows ASCII only and writes '?' for every other unit
cesu8EncodeAscii(str) ==
  [i \in 1..Len(str) |-> IF str[i] < 128 THEN str[i] ELSE 63]

RECURSIVE cesu8Encode(_)
cesu8Encode(str) ==
  IF str = << >> THEN << >>
  ELSE LET chr == Head(str)
           b == IF chr < 128 THEN <<chr>>
                ELSE IF chr < 2048
                  THEN <<192 + (chr \div 64), 128 + (chr % 64)>>
                  ELSE <<224 + (chr \div 4096), 128 + ((chr \div 64) % 64),
                         128 + (chr % 64)>>
       IN  b \o cesu8Encode(Tail(str))

\* stringToCesu8(string, offset, byteConfig): offset zero bytes reserved for
\* the header, then the encoded string
stringToCesu8(str, offset) ==
  [i \in 1..offset |-> 0] \o cesu8Encode(str)

\* assembleUint8Arrays keeping the first byte of b
assembleUint8ArraysKeepsTag(a, b) ==
  IF ~IsSome(a) THEN b ELSE Get(a) \o b

\* assembleUint8Arrays(a, b): a optional; b without its first byte appended
assembleUint8Arrays(a, b) ==
  IF ~IsSome(a) THEN Slice(b, 1, Len(b))
  ELSE IF Len(b) < 2 THEN Get(a)
  ELSE Get(a) \o Slice(b, 1, Len(b))

\* number of lines of a decoded source: source.split(/\n/).length
RECURSIVE lineCount(_)
lineCount(str) ==
  IF str = << >> THEN 1
  ELSE (IF Head(str) = 10 THEN 1 ELSE 0) + lineCount(Tail(str))

----------------------------------------------------------------------------
(* The handler object and the objects it owns *)

ArrayLength(a) ==
  IF DOMAIN a = {} THEN 0
  ELSE (CHOOSE x \in DOMAIN a : \A y \in DOMAIN a : y <= x) + 1

InitHandler ==
  [ maxMessageSize |-> 0,
    byteConfig |-> [cpointerSize |-> 0, littleEndian |-> TRUE],
    version |-> 0,
    stack |-> << >>,
    sources |-> [i \in {0} |-> [name |-> None, source |-> None]],
    lineLists |-> [i \in {0} |-> EmptyMap],
    source |-> << >>,
    sourceData |-> None,
    sourceName |-> None,
    sourceNameData |-> None,
    functionName |-> None,
    functionNameData |-> None,
    evalResultData |-> None,
    functions |-> EmptyMap,
    newFunctions |-> EmptyMap,
    backtrace |-> << >>,
    nextScriptID |-> 1,
    exceptionData |-> None,
    exceptionString |-> None,
    evalsPending |-> 0,
    lastBreakpointHit |-> None,
    lastBreakpointExact |-> TRUE,
    activeBreakpoints |-> EmptyMap,
    nextBreakpointIndex |-> 0,
    waitForSourceEnabled |-> FALSE,
    requestQueue |-> << >>,
    currentRequest |-> None,
    lastStopType |-> None ]

\* new PendingRequest(data); owner names the command whose caller holds the
\* promise of this request ("" when no caller holds it)
PendingRequest(data, owner) ==
  [data |-> data, state |-> "pending", owner |-> owner]

\* new ParsedFunction(byteCodeCP, frame): the function object and the
\* Breakpoint objects it creates; base is the number of Breakpoint objects
\* allocated before, self the reference of the new function
ParsedFunction(byteCodeCP, frame, base, self) ==
  LET n == Len(frame.lines)
      off(i) == IF i <= Len(frame.offsets) THEN Some(frame.offsets[i]) ELSE None
      key(i) == IF i <= Len(frame.offsets) THEN frame.offsets[i] ELSE UndefinedKey
      lastOf(S) == CHOOSE x \in S : \A y \in S : y <= x
  IN  [ func |->
          [ byteCodeCP |-> byteCodeCP,
            scriptId |-> frame.scriptId,
            isFunc |-> frame.isFunc,
            line |-> frame.line,
            column |-> frame.column,
            name |-> frame.name,
            promoted |-> FALSE,  \* history: has been moved into functions
            firstBreakpointLine |->
              IF n > 0 THEN Some(frame.lines[1]) ELSE None,
            firstBreakpointOffset |->
              IF Len(frame.offsets) > 0 THEN Some(frame.offsets[1]) ELSE None,
            lines |->
              [l \in {frame.lines[i] : i \in 1..n} |->
                 base + lastOf({i \in 1..n : frame.lines[i] = l})],
            offsets |->
              [o \in {key(i) : i \in 1..n} |->
                 base + lastOf({i \in 1..n : key(i) = o})] ],
        bps |->
          [i \in 1..n |->
             [ scriptId |-> frame.scriptId,
               func |-> self,
               line |-> frame.lines[i],
               offset |-> off(i),
               activeIndex |-> -1 ]] ]

----------------------------------------------------------------------------
(* One run of a handler or command threads a record m through its           *)
(* statements: the objects (h, pf, bp), what the run has done so far (sent, *)
(* calls, settled, aborts, ran), how it ended (threw, hung), the result of  *)
(* the last send (ok) and the answers the transport will give (plan).       *)

Start(plan) ==
  [ h |-> handler, pf |-> parsedFunctions, bp |-> breakpoints,
    plan |-> plan, sent |-> << >>, calls |-> << >>, seen |-> << >>,
    settled |-> << >>,
    aborts |-> 0, ran |-> "", threw |-> FALSE, hung |-> FALSE, ok |-> TRUE,
    outcome |-> "" ]

\* a callback invocation: n, k are its numeric arguments, flag its boolean
\* one, label a text drawn from a fixed table, s a decoded string or a list
Call(cb, n, k, flag, label, s) ==
  [cb |-> cb, n |-> n, k |-> k, flag |-> flag, label |-> label, s |-> s]

\* a delegate callback is invoked only when the delegate provides it; seen
\* keeps the fields of the handler as they are while the callback runs
Invoke(m, call) ==
  IF call.cb \in delegate
    THEN [m EXCEPT !.calls = Append(@, call), !.seen = Append(@, m.h)]
    ELSE m

\* an exception caught and handed to the delegate's onError
ThrowReported(m) ==
  Invoke([m EXCEPT !.threw = TRUE, !.aborts = @ + 1],
         Call("onError", 0, 0, FALSE, "missing parser stack frame", << >>))

Throw(m) == [m EXCEPT !.threw = TRUE]

\* request.resolve(value) / request.reject(reason); settling a promise
\* that is already settled has no effect
Settle(m, request, how, kind, n, s) ==
  IF request.state # "pending" THEN m
  ELSE [m EXCEPT !.settled =
          Append(@, [data |-> request.data, owner |-> request.owner,
                     how |-> how, kind |-> kind, n |-> n, s |-> s])]

abort(m, message) ==
  Invoke([m EXCEPT !.aborts = @ + 1], Call("onError", 0, 0, FALSE, message, << >>))

\* debuggerClient.send(data): the transport answers with the next entry of
\* the plan
submitRequest(m, request, simple) ==
  LET accepted == Head(m.plan)
      m1 == [m EXCEPT !.sent = Append(@, [data |-> request.data,
                                          accepted |-> accepted]),
                      !.plan = IF Len(@) > 1 THEN Tail(@) ELSE @,
                      !.ok = accepted]
  IN  IF ~accepted THEN m1
      ELSE IF simple THEN m1
      ELSE [m1 EXCEPT !.h.currentRequest = Some(request)]

\* sendSimpleRequest(data): m.ok tells whether the returned promise resolves
sendSimpleRequest(m, data) ==
  submitRequest(m, PendingRequest(data, ""), TRUE)

\* sendRequest handing every request to the transport at once
sendRequestUnqueued(m, data, owner) ==
  submitRequest(m, PendingRequest(data, owner), FALSE)

\* sendRequest(data): m.ok is FALSE when the returned promise is rejected at
\* once
sendRequest(m, data, owner) ==
  LET request == PendingRequest(data, owner)
  IN  IF IsSome(m.h.currentRequest)
        THEN [m EXCEPT !.h.requestQueue = Append(@, request), !.ok = TRUE]
        ELSE submitRequest(m, request, FALSE)

----------------------------------------------------------------------------
(* Handlers of inbound frames *)

onConfiguration(m, data) ==
  IF Len(data) < 5 THEN abort(m, "configuration message wrong size")
  ELSE
    LET m1 == [m EXCEPT !.h.maxMessageSize = data[2],
                        !.h.byteConfig = [cpointerSize |-> data[3],
                                          littleEndian |-> data[4] # 0],
                        !.h.version = data[5]]
        m2 == IF data[3] # 2 /\ data[3] # 4
                THEN abort(m1, "compressed pointer must be 2 or 4 bytes long")
                ELSE m1
    IN  IF data[5] # JERRY_DEBUGGER_VERSION
          THEN abort(m2, "incorrect target debugger version detected")
          ELSE m2

\* addLines listing the function under its first line only, in a new cell
addLinesFirstOnly(lineList, lines, func) ==
  IF lines = << >> THEN lineList
  ELSE MapSet(lineList, Head(lines), <<func>>)

\* promotion of the staged functions at the end of onByteCodeCP
RECURSIVE addLines(_, _, _)
addLines(lineList, lines, func) ==
  IF lines = << >> THEN lineList
  ELSE LET i == Head(lines)
           cell == IF i \in DOMAIN lineList
                     THEN Append(lineList[i], func) ELSE <<func>>
       IN  addLines(MapSet(lineList, i, cell), Tail(lines), func)

RECURSIVE promote(_, _, _, _)
promote(m, cps, staged, lineList) ==
  IF cps = << >>
    THEN [m EXCEPT !.h.lineLists = MapSet(@, ArrayLength(@), lineList),
                   !.h.nextScriptID = @ + 1,
                   !.h.newFunctions = EmptyMap]
    ELSE LET cp == Head(cps)
             func == staged[cp]
         IN  promote([m EXCEPT !.h.functions = MapSet(@, cp, func),
                               !.pf[func].promoted = TRUE],
                     Tail(cps), staged,
                     addLines(lineList,
                              SortedKeys(DOMAIN m.pf[func].lines), func))

onByteCodeCP(m, data) ==
  IF m.h.evalsPending # 0 THEN m
  ELSE IF m.h.stack = << >> THEN Throw(m)
  ELSE
    LET frame == m.h.stack[Len(m.h.stack)]
        m1 == [m EXCEPT !.h.stack = SubSeq(@, 1, Len(@) - 1)]
        d == decodeMessage(m.h.byteConfig, <<"C">>, data, 1)
    IN  IF ~d.ok THEN Throw(m1)
        ELSE
          LET byteCodeCP == d.vals[1]
              self == Len(m.pf) + 1
              new == ParsedFunction(byteCodeCP, frame, Len(m.bp), self)
              m2 == [m1 EXCEPT !.pf = Append(@, new.func),
                               !.bp = @ \o new.bps,
                               !.h.newFunctions = MapSet(@, byteCodeCP, self)]
          IN  IF Len(m2.h.stack) > 0 THEN m2
              ELSE promote([m2 EXCEPT !.h.source = << >>,
                                      !.h.sourceName = None],
                           SortedKeys(DOMAIN m2.h.newFunctions),
                           m2.h.newFunctions, EmptyMap)

onParseFunction(m, data) ==
  LET d == decodeMessage(m.h.byteConfig, <<"I", "I">>, data, 1)
  IN  IF ~d.ok THEN Throw(m)
      ELSE [m EXCEPT
              !.h.stack = Append(@,
                 [ isFunc |-> TRUE,
                   scriptId |-> m.h.nextScriptID,
                   line |-> d.vals[1],
                   column |-> d.vals[2],
                   name |-> IF IsSome(m.h.functionName)
                              THEN Get(m.h.functionName) ELSE << >>,
                   lines |-> << >>,
                   offsets |-> << >> ]),
              !.h.functionName = None]

\* onBreakpointList without the check of the length of the message
onBreakpointListUnchecked(m, data) ==
  IF m.h.evalsPending # 0 THEN m
  ELSE IF m.h.stack = << >> THEN Throw(m)
  ELSE IF data[1] = JERRY_DEBUGGER_BREAKPOINT_LIST
    THEN [m EXCEPT !.h.stack[Len(m.h.stack)].lines =
                     @ \o [k \in 1..((Len(data) - 1) \div 4) |->
                             getUint32(m.h.byteConfig.littleEndian, data,
                                       4 * k - 3)]]
    ELSE [m EXCEPT !.h.stack[Len(m.h.stack)].offsets =
                     @ \o [k \in 1..((Len(data) - 1) \div 4) |->
                             getUint32(m.h.byteConfig.littleEndian, data,
                                       4 * k - 3)]]

onBreakpointList(m, data) ==
  IF m.h.evalsPending # 0 THEN m
  ELSE IF Len(data) % 4 # 1 \/ Len(data) < 1 + 4 THEN Throw(m)
  ELSE IF m.h.stack = << >> THEN Throw(m)
  ELSE
    LET top == Len(m.h.stack)
        values == [k \in 1..((Len(data) - 1) \div 4) |->
                     getUint32(m.h.byteConfig.littleEndian, data, 4 * k - 3)]
    IN  IF data[1] = JERRY_DEBUGGER_BREAKPOINT_LIST
          THEN [m EXCEPT !.h.stack[top].lines = @ \o values]
          ELSE [m EXCEPT !.h.stack[top].offsets = @ \o values]

onSourceCode(m, data) ==
  IF m.h.evalsPending # 0 THEN m
  ELSE
    LET m1 == IF m.h.stack = << >>
                THEN [m EXCEPT !.h.stack =
                        << [ isFunc |-> FALSE,
                             scriptId |-> m.h.nextScriptID,
                             line |-> 1,
                             column |-> 1,
                             name |-> << >>,
                             lines |-> << >>,
                             offsets |-> << >> ] >>]
                ELSE m
        bytes == assembleUint8Arrays(m.h.sourceData, data)
    IN  IF data[1] # JERRY_DEBUGGER_SOURCE_CODE_END
          THEN [m1 EXCEPT !.h.sourceData = Some(bytes)]
          ELSE
            LET source == cesu8ToString(Some(bytes))
                m2 == [m1 EXCEPT
                         !.h.source = source,
                         !.h.sources = MapSet(@, m.h.nextScriptID,
                                         [name |-> m.h.sourceName,
                                          source |-> Some(source)]),
                         !.h.sourceData = None]
            IN  Invoke(m2, Call("onScriptParsed", m.h.nextScriptID,
                                lineCount(source), FALSE, "",
                                IF IsSome(m.h.sourceName)
                                  THEN Get(m.h.sourceName) ELSE << >>))

onSourceCodeName(m, data) ==
  LET bytes == assembleUint8Arrays(m.h.sourceNameData, data)
  IN  IF data[1] = JERRY_DEBUGGER_SOURCE_CODE_NAME_END
        THEN [m EXCEPT !.h.sourceName = Some(cesu8ToString(Some(bytes))),
                       !.h.sourceNameData = None]
        ELSE [m EXCEPT !.h.sourceNameData = Some(bytes)]

onFunctionName(m, data) ==
  LET bytes == assembleUint8Arrays(m.h.functionNameData, data)
  IN  IF data[1] = JERRY_DEBUGGER_FUNCTION_NAME_END
        THEN [m EXCEPT !.h.functionName = Some(cesu8ToString(Some(bytes))),
                       !.h.functionNameData = None]
        ELSE [m EXCEPT !.h.functionNameData = Some(bytes)]

onExceptionStr(m, data) ==
  LET bytes == assembleUint8Arrays(m.h.exceptionData, data)
  IN  IF data[1] = JERRY_DEBUGGER_EXCEPTION_STR_END
        THEN [m EXCEPT !.h.exceptionString = Some(cesu8ToString(Some(bytes))),
                       !.h.exceptionData = None]
        ELSE [m EXCEPT !.h.exceptionData = Some(bytes)]

onWaitForSource(m, data) ==
  Invoke([m EXCEPT !.h.waitForSourceEnabled = TRUE],
         Call("onWaitForSource", 0, 0, FALSE, "", << >>))

\* releaseFunction(byteCodeCP)
RECURSIVE releaseLines(_, _, _, _)
releaseLines(m, lines, func, scriptId) ==
  IF lines = << >> \/ m.threw THEN m
  ELSE
    LET i == Head(lines)
    IN  IF scriptId \notin DOMAIN m.h.lineLists
           \/ i \notin DOMAIN m.h.lineLists[scriptId]
          THEN Throw(m)
          ELSE
            LET array == m.h.lineLists[scriptId][i]
                found == {j \in 1..Len(array) : array[j] = func}
                \* indexOf gives -1 when absent and splice(-1, 1) removes
                \* the last element
                index == IF found = {} THEN Len(array)
                         ELSE CHOOSE j \in found : \A k \in found : j <= k
                spliced == [j \in 1..(Len(array) - (IF index = 0 THEN 0 ELSE 1))
                              |-> IF j < index THEN array[j] ELSE array[j + 1]]
                breakpoint == m.bp[m.pf[func].lines[i]]
                m1 == [m EXCEPT !.h.lineLists[scriptId] =
                                   MapSet(@, i, spliced)]
                m2 == IF breakpoint.activeIndex >= 0
                        THEN [m1 EXCEPT !.h.activeBreakpoints =
                                MapDel(@, breakpoint.activeIndex)]
                        ELSE m1
            IN  releaseLines(m2, Tail(lines), func, scriptId)

\* releaseFunction leaving the entry of the function table in place
releaseFunctionKeepsEntry(m, byteCodeCP) ==
  IF byteCodeCP \notin DOMAIN m.h.functions THEN Throw(m)
  ELSE releaseLines(m, SortedKeys(DOMAIN m.pf[m.h.functions[byteCodeCP]].lines),
                    m.h.functions[byteCodeCP],
                    m.pf[m.h.functions[byteCodeCP]].scriptId)

releaseFunction(m, byteCodeCP) ==
  IF byteCodeCP \notin DOMAIN m.h.functions THEN Throw(m)
  ELSE
    LET func == m.h.functions[byteCodeCP]
        m1 == releaseLines(m, SortedKeys(DOMAIN m.pf[func].lines), func,
                           m.pf[func].scriptId)
    IN  IF m1.threw THEN m1
        ELSE [m1 EXCEPT !.h.functions = MapDel(@, byteCodeCP)]

\* onReleaseByteCodeCP releasing also while evals are pending
onReleaseByteCodeCPUngated(m, data) ==
  LET d == decodeMessage(m.h.byteConfig, <<"C">>, data, 1)
      m1 == IF ~d.ok THEN Throw(m)
            ELSE IF d.vals[1] \in DOMAIN m.h.newFunctions
              THEN [m EXCEPT !.h.newFunctions = MapDel(@, d.vals[1])]
              ELSE releaseFunction(m, d.vals[1])
  IN  IF m1.threw THEN m1
      ELSE sendSimpleRequest(m1,
             <<JERRY_DEBUGGER_FREE_BYTE_CODE_CP>> \o Tail(data))

onReleaseByteCodeCP(m, data) ==
  LET d == decodeMessage(m.h.byteConfig, <<"C">>, data, 1)
      m1 == IF m.h.evalsPending # 0 THEN m
            ELSE IF ~d.ok THEN Throw(m)
            ELSE IF d.vals[1] \in DOMAIN m.h.newFunctions
              THEN [m EXCEPT !.h.newFunctions = MapDel(@, d.vals[1])]
              ELSE releaseFunction(m, d.vals[1])
  IN  IF m1.threw THEN m1
      ELSE sendSimpleRequest(m1,
             <<JERRY_DEBUGGER_FREE_BYTE_CODE_CP>> \o Tail(data))

\* getBreakpoint answering with the first breakpoint of the function whatever
\* the offset
getBreakpointFirst(m, breakpointData) ==
  IF breakpointData[1] \notin DOMAIN m.h.functions
    THEN [ok |-> FALSE, breakpoint |-> None, exact |-> FALSE]
    ELSE
      LET func == m.pf[m.h.functions[breakpointData[1]]]
      IN  [ok |-> TRUE,
           breakpoint |->
             IF IsSome(func.firstBreakpointOffset)
                  /\ Get(func.firstBreakpointOffset) \in DOMAIN func.offsets
               THEN Some(func.offsets[Get(func.firstBreakpointOffset)])
               ELSE None,
           exact |-> TRUE]

\* getBreakpoint(breakpointData): [ok, breakpoint, exact]; ok = FALSE is the
\* TypeError of an unknown function, breakpoint is optional
getBreakpoint(m, breakpointData) ==
  IF breakpointData[1] \notin DOMAIN m.h.functions
    THEN [ok |-> FALSE, breakpoint |-> None, exact |-> FALSE]
    ELSE
      LET func == m.pf[m.h.functions[breakpointData[1]]]
          offset == breakpointData[2]
          numeric == {o \in DOMAIN func.offsets : o # UndefinedKey}
          below == {o \in numeric : o <= offset}
      IN  IF offset \in numeric
            THEN [ok |-> TRUE, breakpoint |-> Some(func.offsets[offset]),
                  exact |-> TRUE]
          ELSE IF IsSome(func.firstBreakpointOffset)
                  /\ offset < Get(func.firstBreakpointOffset)
            THEN [ok |-> TRUE,
                  breakpoint |->
                    IF Get(func.firstBreakpointOffset) \in DOMAIN func.offsets
                      THEN Some(func.offsets[Get(func.firstBreakpointOffset)])
                      ELSE None,
                  exact |-> TRUE]
          ELSE [ok |-> TRUE,
                breakpoint |->
                  IF below = {} THEN None
                  ELSE Some(func.offsets[CHOOSE o \in below :
                                            \A p \in below : p <= o]),
                exact |-> FALSE]

\* stopTypeMap[lastStopType] || 'entry'
stopTypeText(lastStopType) ==
  IF ~IsSome(lastStopType) THEN "entry"
  ELSE IF Get(lastStopType) = JERRY_DEBUGGER_NEXT THEN "step"
  ELSE IF Get(lastStopType) = JERRY_DEBUGGER_STEP THEN "step-in"
  ELSE IF Get(lastStopType) = JERRY_DEBUGGER_FINISH THEN "step-out"
  ELSE IF Get(lastStopType) = JERRY_DEBUGGER_CONTINUE THEN "continue"
  ELSE IF Get(lastStopType) = JERRY_DEBUGGER_STOP THEN "pause"
  ELSE "entry"

onBreakpointHit(m, data) ==
  LET d == decodeMessage(m.h.byteConfig, <<"C", "I">>, data, 1)
  IN  IF ~d.ok THEN Throw(m)
      ELSE
        LET breakpointRef == getBreakpoint(m, d.vals)
        IN  IF ~breakpointRef.ok THEN Throw(m)
            ELSE
              LET m1 == [m EXCEPT
                           !.h.lastBreakpointHit = breakpointRef.breakpoint,
                           !.h.lastBreakpointExact = breakpointRef.exact]
              IN  IF ~IsSome(breakpointRef.breakpoint) THEN Throw(m1)
                  ELSE
                    LET b == Get(breakpointRef.breakpoint)
                    IN  IF data[1] = JERRY_DEBUGGER_EXCEPTION_HIT
                           /\ "onExceptionHit" \in delegate
                          THEN [Invoke(m1,
                                  Call("onExceptionHit", b,
                                       IF IsSome(m.h.exceptionString)
                                         THEN 1 ELSE 0,
                                       breakpointRef.exact, "",
                                       IF IsSome(m.h.exceptionString)
                                         THEN Get(m.h.exceptionString)
                                         ELSE << >>))
                                EXCEPT !.h.exceptionString = None]
                          ELSE [Invoke(m1,
                                  Call("onBreakpointHit", b,
                                       IF m.bp[b].activeIndex = -1
                                         THEN 1 ELSE 0,
                                       breakpointRef.exact,
                                       stopTypeText(m.h.lastStopType), << >>))
                                EXCEPT !.h.lastStopType = None]

\* onBacktrace(data): the value returned is m.h.backtrace before the reset
\* for BACKTRACE_END and [] otherwise (see result below)
RECURSIVE backtraceFrames(_, _, _)
backtraceFrames(m, data, i) ==
  IF i >= Len(data) THEN m
  ELSE
    LET d == decodeMessage(m.h.byteConfig, <<"C", "I">>, data, i)
    IN  IF ~d.ok THEN Throw(m)
        ELSE
          LET ref == getBreakpoint(m, d.vals)
          IN  IF ~ref.ok THEN Throw(m)
              ELSE backtraceFrames(
                     [m EXCEPT !.h.backtrace = Append(@, ref.breakpoint)],
                     data, i + m.h.byteConfig.cpointerSize + 4)

\* a list of optional breakpoints as a list of numbers, 0 for undefined
Refs(list) == [i \in 1..Len(list) |-> IF IsSome(list[i]) THEN Get(list[i]) ELSE 0]

onBacktrace(m, data) ==
  LET m1 == backtraceFrames(m, data, 1)
  IN  IF m1.threw THEN [m |-> m1, list |-> << >>]
      ELSE IF data[1] = JERRY_DEBUGGER_BACKTRACE_END
        THEN [m |-> [Invoke(m1, Call("onBacktrace", 0, 0, FALSE, "",
                                      Refs(m1.h.backtrace)))
                      EXCEPT !.h.backtrace = << >>],
              list |-> Refs(m1.h.backtrace)]
        ELSE [m |-> m1, list |-> << >>]

\* onEvalResult(data): the JerryEvalResult returned is [subtype, value]
onEvalResult(m, data) ==
  LET bytes == assembleUint8Arrays(m.h.evalResultData, data)
  IN  IF data[1] = JERRY_DEBUGGER_EVAL_RESULT_END
        THEN
          LET subType == data[Len(data)]
              evalResult ==
                cesu8ToString(Some(Slice(bytes, 0, Len(bytes) - 1)))
          IN  [m |-> [Invoke(m, Call("onEvalResult", subType, 0, FALSE, "",
                                      evalResult))
                       EXCEPT !.h.evalResultData = None,
                              !.h.evalsPending = @ - 1],
               subtype |-> subType, value |-> evalResult]
        ELSE [m |-> [m EXCEPT !.h.evalResultData = Some(bytes)],
              subtype |-> -1, value |-> << >>]

\* the per-tag handler of functionMap[message[0]] applied to the message:
\* the state after it, whether its return value is truthy, and the value
HandledTypes ==
  { JERRY_DEBUGGER_CONFIGURATION, JERRY_DEBUGGER_BYTE_CODE_CP,
    JERRY_DEBUGGER_PARSE_FUNCTION, JERRY_DEBUGGER_BREAKPOINT_LIST,
    JERRY_DEBUGGER_BREAKPOINT_OFFSET_LIST, JERRY_DEBUGGER_SOURCE_CODE,
    JERRY_DEBUGGER_SOURCE_CODE_END, JERRY_DEBUGGER_SOURCE_CODE_NAME,
    JERRY_DEBUGGER_SOURCE_CODE_NAME_END, JERRY_DEBUGGER_FUNCTION_NAME,
    JERRY_DEBUGGER_FUNCTION_NAME_END, JERRY_DEBUGGER_RELEASE_BYTE_CODE_CP,
    JERRY_DEBUGGER_BREAKPOINT_HIT, JERRY_DEBUGGER_EXCEPTION_HIT,
    JERRY_DEBUGGER_EXCEPTION_STR, JERRY_DEBUGGER_EXCEPTION_STR_END,
    JERRY_DEBUGGER_BACKTRACE, JERRY_DEBUGGER_BACKTRACE_END,
    JERRY_DEBUGGER_EVAL_RESULT, JERRY_DEBUGGER_EVAL_RESULT_END,
    JERRY_DEBUGGER_WAIT_FOR_SOURCE }

Void(m, name) ==
  [m |-> [m EXCEPT !.ran = name], truthy |-> FALSE, kind |-> "", n |-> 0,
   s |-> << >>]

functionMap(m, message) ==
  LET type == message[1]
  IN  IF type = JERRY_DEBUGGER_CONFIGURATION
        THEN Void(onConfiguration(m, message), "onConfiguration")
      ELSE IF type = JERRY_DEBUGGER_BYTE_CODE_CP
        THEN Void(onByteCodeCP(m, message), "onByteCodeCP")
      ELSE IF type = JERRY_DEBUGGER_PARSE_FUNCTION
        THEN Void(onParseFunction(m, message), "onParseFunction")
      ELSE IF type \in {JERRY_DEBUGGER_BREAKPOINT_LIST,
                        JERRY_DEBUGGER_BREAKPOINT_OFFSET_LIST}
        THEN Void(onBreakpointList(m, message), "onBreakpointList")
      ELSE IF type \in {JERRY_DEBUGGER_SOURCE_CODE,
                        JERRY_DEBUGGER_SOURCE_CODE_END}
        THEN Void(onSourceCode(m, message), "onSourceCode")
      ELSE IF type \in {JERRY_DEBUGGER_SOURCE_CODE_NAME,
                        JERRY_DEBUGGER_SOURCE_CODE_NAME_END}
        THEN Void(onSourceCodeName(m, message), "onSourceCodeName")
      ELSE IF type \in {JERRY_DEBUGGER_FUNCTION_NAME,
                        JERRY_DEBUGGER_FUNCTION_NAME_END}
        THEN Void(onFunctionName(m, message), "onFunctionName")
      ELSE IF type = JERRY_DEBUGGER_RELEASE_BYTE_CODE_CP
        THEN Void(onReleaseByteCodeCP(m, message), "onReleaseByteCodeCP")
      ELSE IF type \in {JERRY_DEBUGGER_BREAKPOINT_HIT,
                        JERRY_DEBUGGER_EXCEPTION_HIT}
        THEN Void(onBreakpointHit(m, message), "onBreakpointHit")
      ELSE IF type \in {JERRY_DEBUGGER_EXCEPTION_STR,
                        JERRY_DEBUGGER_EXCEPTION_STR_END}
        THEN Void(onExceptionStr(m, message), "onExceptionStr")
      ELSE IF type \in {JERRY_DEBUGGER_BACKTRACE,
                        JERRY_DEBUGGER_BACKTRACE_END}
        THEN LET r == onBacktrace(m, message)
             IN  [m |-> [r.m EXCEPT !.ran = "onBacktrace"], truthy |-> TRUE,
                  kind |-> "backtrace", n |-> 0, s |-> r.list]
      ELSE IF type \in {JERRY_DEBUGGER_EVAL_RESULT,
                        JERRY_DEBUGGER_EVAL_RESULT_END}
        THEN LET r == onEvalResult(m, message)
             IN  [m |-> [r.m EXCEPT !.ran = "onEvalResult"], truthy |-> TRUE,
                  kind |-> "eval", n |-> r.subtype, s |-> r.value]
      ELSE Void(onWaitForSource(m, message), "onWaitForSource")

\* the current request object after its promise has been settled
Mark(m, state) ==
  IF IsSome(m.h.currentRequest)
       /\ Get(m.h.currentRequest).state = "pending"
    THEN [m EXCEPT !.h.currentRequest[1].state = state]
    ELSE m

\* onMessage once the next queued request has been handed to submitRequest
submitted(m, newRequest) ==
  IF ~m.ok
    THEN Settle(m, newRequest, "reject", "Failed to submit request.",
                0, << >>)
    ELSE m

\* onMessage once the current request has been resolved: the next queued
\* request is submitted, or the current request is cleared
submitNext(m) ==
  IF Len(m.h.requestQueue) > 0
    THEN submitted(submitRequest([m EXCEPT !.h.requestQueue = Tail(@)],
                                 Head(m.h.requestQueue), FALSE),
                   Head(m.h.requestQueue))
    ELSE [m EXCEPT !.h.currentRequest = None]

\* onMessage once the handler has returned r: a truthy result resolves the
\* request that was current when the message arrived
handled(r, request) ==
  IF r.m.threw \/ ~IsSome(request) \/ ~r.truthy THEN r.m
  ELSE submitNext(Mark(Settle(r.m, Get(request), "resolve",
                              r.kind, r.n, r.s), "resolved"))

\* onMessage for a tag without a handler: the current request is rejected
\* and the session aborted
unhandled(m, message) ==
  abort(IF IsSome(m.h.currentRequest)
          THEN Mark(Settle(m, Get(m.h.currentRequest), "reject",
                           "unhandled protocol message type",
                           message[1], << >>), "rejected")
          ELSE m,
        "unhandled protocol message type")

\* onMessage past its two checks: the handler of the tag runs, and a truthy
\* result resolves the current request and submits the next queued one
dispatch(m, message) ==
  IF message[1] \in HandledTypes
    THEN handled(functionMap(m, message), m.h.currentRequest)
    ELSE unhandled(m, message)

\* onMessage without the check that the first message is CONFIGURATION
onMessageUngated(m, message) ==
  IF Len(message) < 1 THEN abort(m, "message too short")
  ELSE dispatch(m, message)

onMessage(m, message) ==
  IF Len(message) < 1 THEN abort(m, "message too short")
  ELSE IF m.h.byteConfig.cpointerSize = 0
          /\ message[1] # JERRY_DEBUGGER_CONFIGURATION
    THEN abort(m, "the first message must be configuration")
  ELSE dispatch(m, message)

----------------------------------------------------------------------------
(* Commands of the facade.  m.outcome is what the caller gets back:         *)
(* "rejected: state" - the promise is rejected because the precondition     *)
(* does not hold, "rejected: submit" - rejected because send returned       *)
(* false, "resolved", "pending" - the promise of a tracked request,         *)
(* "threw" - the call itself threw.                                         *)

Outcome(m, o) == [m EXCEPT !.outcome = o]

Sent(m) == Outcome(m, IF m.ok THEN "resolved" ELSE "rejected: submit")

pause(m) ==
  IF IsSome(m.h.lastBreakpointHit) THEN Outcome(m, "rejected: state")
  ELSE Sent(sendSimpleRequest(
              [m EXCEPT !.h.lastStopType = Some(JERRY_DEBUGGER_STOP)],
              encodeMessage(m.h.byteConfig, <<"B">>,
                            <<Some(JERRY_DEBUGGER_STOP)>>).bytes))

\* resumeExec without the check that the program is halted
resumeExecUnchecked(m, code) ==
  LET m1 == sendSimpleRequest(
              [m EXCEPT !.h.lastBreakpointHit = None,
                        !.h.lastStopType = Some(code)],
              encodeMessage(m.h.byteConfig, <<"B">>, <<Some(code)>>).bytes)
  IN  Invoke(Sent(m1), Call("onResume", 0, 0, FALSE, "", << >>))

\* resumeExec leaving lastBreakpointHit as it is
resumeExecKeepsHit(m, code) ==
  IF ~IsSome(m.h.lastBreakpointHit) THEN Outcome(m, "rejected: state")
  ELSE
    Invoke(Sent(sendSimpleRequest(
                  [m EXCEPT !.h.lastStopType = Some(code)],
                  encodeMessage(m.h.byteConfig, <<"B">>, <<Some(code)>>).bytes)),
           Call("onResume", 0, 0, FALSE, "", << >>))

resumeExec(m, code) ==
  IF ~IsSome(m.h.lastBreakpointHit) THEN Outcome(m, "rejected: state")
  ELSE
    LET m1 == sendSimpleRequest(
                [m EXCEPT !.h.lastBreakpointHit = None,
                          !.h.lastStopType = Some(code)],
                encodeMessage(m.h.byteConfig, <<"B">>, <<Some(code)>>).bytes)
    IN  Invoke(Sent(m1), Call("onResume", 0, 0, FALSE, "", << >>))

stepOver(m) == resumeExec(m, JERRY_DEBUGGER_NEXT)
stepInto(m) == resumeExec(m, JERRY_DEBUGGER_STEP)
stepOut(m) == resumeExec(m, JERRY_DEBUGGER_FINISH)
resume(m) == resumeExec(m, JERRY_DEBUGGER_CONTINUE)

\* the fragment loop of evaluate starting every fragment after the last byte
\* of the one before, whose place the tag then takes
RECURSIVE evaluateLoopSkipsByte(_, _, _)
evaluateLoopSkipsByte(m, array, offset) ==
  IF ~(offset < Len(array) - 1) THEN m
  ELSE
    LET clamped == Min(Len(array) - offset, m.h.maxMessageSize)
        next == offset + clamped
        final == ~(next < Len(array) - 1)
        m1 == sendRequest(m, Slice(array, offset, offset + clamped),
                          IF final THEN "evaluate" ELSE "")
        m2 == Outcome(m1, IF m1.ok THEN "pending" ELSE "rejected: submit")
    IN  evaluateLoopSkipsByte(
          m2,
          IF next < Len(array)
            THEN [array EXCEPT ![next + 1] = JERRY_DEBUGGER_EVAL_PART]
            ELSE array,
          next)

\* the fragment loop of evaluate; the promise returned is the one of the
\* last sendRequest
RECURSIVE evaluateLoop(_, _, _)
evaluateLoop(m, array, offset) ==
  IF ~(offset < Len(array) - 1) THEN m
  ELSE
    LET clamped == Min(Len(array) - offset, m.h.maxMessageSize)
        next == offset + clamped - 1
        final == ~(next < Len(array) - 1)
        m1 == sendRequest(m, Slice(array, offset, offset + clamped),
                          IF final THEN "evaluate" ELSE "")
        m2 == Outcome(m1, IF m1.ok THEN "pending" ELSE "rejected: submit")
    IN  evaluateLoop(m2,
                     [array EXCEPT ![next + 1] = JERRY_DEBUGGER_EVAL_PART],
                     next)

evaluate(m, expression) ==
  IF ~IsSome(m.h.lastBreakpointHit) THEN Outcome(m, "rejected: state")
  ELSE
    LET m1 == [m EXCEPT !.h.evalsPending = @ + 1]
        body == stringToCesu8(<<JERRY_DEBUGGER_EVAL_EVAL>> \o expression, 5)
        array == <<JERRY_DEBUGGER_EVAL>>
                   \o setUint32(m.h.byteConfig.littleEndian, Len(body) - 5)
                   \o Slice(body, 5, Len(body))
    IN  \* with a message size below 2 the offset never advances
        IF m.h.maxMessageSize < 2 THEN [m1 EXCEPT !.hung = TRUE]
        ELSE evaluateLoop(m1, array, 0)

\* findBreakpoint answering with the last function of the line
findBreakpointLast(h, pf, scriptId, line) ==
  IF scriptId <= 0 \/ scriptId >= ArrayLength(h.lineLists) THEN None
  ELSE IF line \notin DOMAIN h.lineLists[scriptId] THEN None
  ELSE IF h.lineLists[scriptId][line] = << >> THEN None
  ELSE Some(pf[h.lineLists[scriptId][line][Len(h.lineLists[scriptId][line])]]
              .lines[line])

findBreakpoint(h, pf, scriptId, line) ==
  IF scriptId <= 0 \/ scriptId >= ArrayLength(h.lineLists) THEN None
  ELSE IF line \notin DOMAIN h.lineLists[scriptId] THEN None
  ELSE IF h.lineLists[scriptId][line] = << >> THEN None
  ELSE Some(pf[h.lineLists[scriptId][line][1]].lines[line])

\* updateBreakpoint leaving the slot of a disabled breakpoint occupied
updateBreakpointKeepsSlot(m, breakpoint, enable) ==
  LET b == m.bp[breakpoint]
      frame(mm) == encodeMessage(mm.h.byteConfig, <<"B", "B", "C", "I">>,
                     << Some(JERRY_DEBUGGER_UPDATE_BREAKPOINT),
                        Some(IF enable THEN 1 ELSE 0),
                        Some(mm.pf[b.func].byteCodeCP),
                        b.offset >>)
      send(mm) == IF ~frame(mm).ok THEN Outcome(Throw(mm), "threw")
                  ELSE Sent(sendSimpleRequest(mm, frame(mm).bytes))
  IN  IF enable
        THEN IF b.activeIndex # -1 THEN Outcome(m, "rejected: state")
             ELSE send([m EXCEPT
                          !.bp[breakpoint].activeIndex =
                             m.h.nextBreakpointIndex,
                          !.h.nextBreakpointIndex = @ + 1,
                          !.h.activeBreakpoints =
                             MapSet(@, m.h.nextBreakpointIndex, breakpoint)])
        ELSE IF b.activeIndex = -1 THEN Outcome(m, "rejected: state")
             ELSE send([m EXCEPT !.bp[breakpoint].activeIndex = -1])

\* updateBreakpoint leaving the activeIndex of a disabled breakpoint
updateBreakpointKeepsIndex(m, breakpoint, enable) ==
  LET b == m.bp[breakpoint]
      frame(mm) == encodeMessage(mm.h.byteConfig, <<"B", "B", "C", "I">>,
                     << Some(JERRY_DEBUGGER_UPDATE_BREAKPOINT),
                        Some(IF enable THEN 1 ELSE 0),
                        Some(mm.pf[b.func].byteCodeCP),
                        b.offset >>)
      send(mm) == IF ~frame(mm).ok THEN Outcome(Throw(mm), "threw")
                  ELSE Sent(sendSimpleRequest(mm, frame(mm).bytes))
  IN  IF enable
        THEN IF b.activeIndex # -1 THEN Outcome(m, "rejected: state")
             ELSE send([m EXCEPT
                          !.bp[breakpoint].activeIndex =
                             m.h.nextBreakpointIndex,
                          !.h.nextBreakpointIndex = @ + 1,
                          !.h.activeBreakpoints =
                             MapSet(@, m.h.nextBreakpointIndex, breakpoint)])
        ELSE IF b.activeIndex = -1 THEN Outcome(m, "rejected: state")
             ELSE send([m EXCEPT
                          !.h.activeBreakpoints = MapDel(@, b.activeIndex)])

updateBreakpoint(m, breakpoint, enable) ==
  LET b == m.bp[breakpoint]
      frame(mm) == encodeMessage(mm.h.byteConfig, <<"B", "B", "C", "I">>,
                     << Some(JERRY_DEBUGGER_UPDATE_BREAKPOINT),
                        Some(IF enable THEN 1 ELSE 0),
                        Some(mm.pf[b.func].byteCodeCP),
                        b.offset >>)
      send(mm) == IF ~frame(mm).ok THEN Outcome(Throw(mm), "threw")
                  ELSE Sent(sendSimpleRequest(mm, frame(mm).bytes))
  IN  IF enable
        THEN IF b.activeIndex # -1 THEN Outcome(m, "rejected: state")
             ELSE send([m EXCEPT
                          !.bp[breakpoint].activeIndex =
                             m.h.nextBreakpointIndex,
                          !.h.nextBreakpointIndex = @ + 1,
                          !.h.activeBreakpoints =
                             MapSet(@, m.h.nextBreakpointIndex, breakpoint)])
        ELSE IF b.activeIndex = -1 THEN Outcome(m, "rejected: state")
             ELSE send([m EXCEPT
                          !.h.activeBreakpoints = MapDel(@, b.activeIndex),
                          !.bp[breakpoint].activeIndex = -1])

requestBacktrace(m) ==
  IF ~IsSome(m.h.lastBreakpointHit) THEN Outcome(m, "rejected: state")
  ELSE
    LET m1 == sendRequest(m,
                encodeMessage(m.h.byteConfig, <<"B", "I">>,
                  <<Some(JERRY_DEBUGGER_GET_BACKTRACE), Some(0)>>).bytes,
                "requestBacktrace")
    IN  Outcome(m1, IF m1.ok THEN "pending" ELSE "rejected: submit")

RECURSIVE clientSourceLoop(_, _, _)
clientSourceLoop(m, array, offset) ==
  IF ~(offset < Len(array)) THEN m
  ELSE
    LET part == [array EXCEPT ![offset + 1] = JERRY_DEBUGGER_CLIENT_SOURCE_PART]
    IN  clientSourceLoop(
          Sent(sendSimpleRequest(m,
                 Slice(part, offset, offset + m.h.maxMessageSize))),
          part, offset + m.h.maxMessageSize - 1)

\* sendClientSource leaving waitForSourceEnabled set
sendClientSourceKeepsFlag(m, fileName, fileSourceCode) ==
  IF ~m.h.waitForSourceEnabled THEN Outcome(m, "rejected: state")
  ELSE
    LET body == stringToCesu8(fileName \o <<0>> \o fileSourceCode, 5)
        array == <<JERRY_DEBUGGER_CLIENT_SOURCE>> \o Tail(body)
    IN  IF Len(array) <= m.h.maxMessageSize
          THEN Sent(sendSimpleRequest(m, array))
        ELSE IF m.h.maxMessageSize < 2 THEN [m EXCEPT !.hung = TRUE]
        ELSE clientSourceLoop(
               Sent(sendSimpleRequest(m, Slice(array, 0, m.h.maxMessageSize))),
               array, m.h.maxMessageSize - 1)

sendClientSource(m, fileName, fileSourceCode) ==
  IF ~m.h.waitForSourceEnabled THEN Outcome(m, "rejected: state")
  ELSE
    LET m1 == [m EXCEPT !.h.waitForSourceEnabled = FALSE]
        body == stringToCesu8(fileName \o <<0>> \o fileSourceCode, 5)
        array == <<JERRY_DEBUGGER_CLIENT_SOURCE>> \o Tail(body)
    IN  IF Len(array) <= m.h.maxMessageSize
          THEN Sent(sendSimpleRequest(m1, array))
        \* with a message size below 2 the offset never advances
        ELSE IF m.h.maxMessageSize < 2 THEN [m1 EXCEPT !.hung = TRUE]
        ELSE clientSourceLoop(
               Sent(sendSimpleRequest(m1,
                      Slice(array, 0, m.h.maxMessageSize))),
               array, m.h.maxMessageSize - 1)

sendClientSourceControl(m, code) ==
  IF code \notin {JERRY_DEBUGGER_NO_MORE_SOURCES, JERRY_DEBUGGER_CONTEXT_RESET}
    THEN Outcome(m, "rejected: state")
    ELSE Sent(sendSimpleRequest(m,
                encodeMessage(m.h.byteConfig, <<"B">>, <<Some(code)>>).bytes))

----------------------------------------------------------------------------
(* Inputs *)

\* callbacks of a delegate: all of them, the ones the debug session of the
\* extension provides, none
AllCallbacks ==
  { "onBacktrace", "onBreakpointHit", "onExceptionHit", "onEvalResult",
    "onError", "onResume", "onScriptParsed", "onWaitForSource" }
SessionCallbacks ==
  { "onBreakpointHit", "onExceptionHit", "onScriptParsed", "onWaitForSource" }
Delegates == { AllCallbacks, SessionCallbacks, {} }

\* answers of debuggerClient.send to the sends of one step
SendPlans == [1..MaxSends -> BOOLEAN]

\* CONFIGURATION frames: [type, maxMessageSize, cpointerSize, littleEndian,
\* version]
ConfigurationFrames ==
  { <<JERRY_DEBUGGER_CONFIGURATION, 6, 2, 1, JERRY_DEBUGGER_VERSION>>,
    <<JERRY_DEBUGGER_CONFIGURATION, 8, 4, 0, JERRY_DEBUGGER_VERSION>>,
    <<JERRY_DEBUGGER_CONFIGURATION, 6, 2, 1, JERRY_DEBUGGER_VERSION, 0>>,
    <<JERRY_DEBUGGER_CONFIGURATION, 6, 2, 1>>,
    <<JERRY_DEBUGGER_CONFIGURATION, 6, 3, 1, JERRY_DEBUGGER_VERSION>>,
    <<JERRY_DEBUGGER_CONFIGURATION, 6, 2, 1, JERRY_DEBUGGER_VERSION + 1>>,
    <<JERRY_DEBUGGER_CONFIGURATION, 6, 3, 1, JERRY_DEBUGGER_VERSION + 1>>,
    <<JERRY_DEBUGGER_CONFIGURATION, 6, 0, 1, JERRY_DEBUGGER_VERSION>> }

\* the frames of a session with 2-byte little-endian pointers
GoodConfiguration ==
  <<JERRY_DEBUGGER_CONFIGURATION, 16, 2, 1, JERRY_DEBUGGER_VERSION>>

MalformedFrames == { << >>, <<255>> }

TextFrames ==
  { <<JERRY_DEBUGGER_SOURCE_CODE, 97, 10>>,
    <<JERRY_DEBUGGER_SOURCE_CODE_END, 97>>,
    <<JERRY_DEBUGGER_SOURCE_CODE_NAME, 97>>,
    <<JERRY_DEBUGGER_SOURCE_CODE_NAME_END, 98>>,
    <<JERRY_DEBUGGER_FUNCTION_NAME, 102>>,
    <<JERRY_DEBUGGER_FUNCTION_NAME_END, 103>>,
    <<JERRY_DEBUGGER_EXCEPTION_STR, 101>>,
    <<JERRY_DEBUGGER_EXCEPTION_STR_END, 120>> }

ParserFrames ==
  { <<JERRY_DEBUGGER_SOURCE_CODE_END, 97>>,
    <<JERRY_DEBUGGER_PARSE_FUNCTION, 2, 0, 0, 0, 1, 0, 0, 0>>,
    <<JERRY_DEBUGGER_BREAKPOINT_LIST, 5, 0, 0, 0>>,
    <<JERRY_DEBUGGER_BREAKPOINT_LIST, 5, 0, 0, 0, 7, 0, 0, 0>>,
    <<JERRY_DEBUGGER_BREAKPOINT_LIST, 5, 0, 0>>,
    <<JERRY_DEBUGGER_BREAKPOINT_OFFSET_LIST, 10, 0, 0, 0>>,
    <<JERRY_DEBUGGER_BREAKPOINT_OFFSET_LIST, 20, 0, 0, 0>>,
    <<JERRY_DEBUGGER_BYTE_CODE_CP, 42, 0>>,
    <<JERRY_DEBUGGER_BYTE_CODE_CP, 43, 0>>,
    <<JERRY_DEBUGGER_RELEASE_BYTE_CODE_CP, 42, 0>>,
    <<JERRY_DEBUGGER_RELEASE_BYTE_CODE_CP, 43, 0>> }

ExecutionFrames ==
  { <<JERRY_DEBUGGER_BREAKPOINT_HIT, 42, 0, 10, 0, 0, 0>>,
    <<JERRY_DEBUGGER_BREAKPOINT_HIT, 42, 0, 15, 0, 0, 0>>,
    <<JERRY_DEBUGGER_EXCEPTION_HIT, 42, 0, 10, 0, 0, 0>>,
    <<JERRY_DEBUGGER_BACKTRACE, 42, 0, 10, 0, 0, 0>>,
    <<JERRY_DEBUGGER_BACKTRACE_END, 42, 0, 20, 0, 0, 0>>,
    <<JERRY_DEBUGGER_BACKTRACE_END>>,
    <<JERRY_DEBUGGER_EVAL_RESULT, 97>>,
    <<JERRY_DEBUGGER_EVAL_RESULT_END, 98, JERRY_DEBUGGER_EVAL_OK>>,
    <<JERRY_DEBUGGER_EVAL_RESULT_END>>,
    <<JERRY_DEBUGGER_WAIT_FOR_SOURCE>> }

Expressions == { <<97>> }
ControlCodes ==
  { JERRY_DEBUGGER_NO_MORE_SOURCES, JERRY_DEBUGGER_CONTEXT_RESET,
    JERRY_DEBUGGER_STOP }

----------------------------------------------------------------------------
(* The state machine *)

OptLen(o) == IF IsSome(o) THEN Len(Get(o)) ELSE 0

Bounded(m) ==
  /\ m.h.nextScriptID <= MaxScripts + 1
  /\ Len(m.h.stack) <= MaxStack
  /\ \A i \in 1..Len(m.h.stack) :
       Len(m.h.stack[i].lines) <= MaxList /\ Len(m.h.stack[i].offsets) <= MaxList
  /\ Len(m.pf) <= MaxFunctions
  /\ OptLen(m.h.sourceData) <= MaxBuf
  /\ OptLen(m.h.sourceNameData) <= MaxBuf
  /\ OptLen(m.h.functionNameData) <= MaxBuf
  /\ OptLen(m.h.exceptionData) <= MaxBuf
  /\ OptLen(m.h.evalResultData) <= MaxBuf
  /\ Len(m.h.backtrace) <= MaxBacktrace
  /\ Len(m.h.requestQueue) <= MaxQueue
  /\ m.h.evalsPending <= MaxEvals
  /\ m.h.evalsPending >= -MaxNegEvals
  /\ m.h.nextBreakpointIndex <= MaxBreakpointIndex

----------------------------------------------------------------------------
(* JerryDebuggerSerialClient *)

\* the client after its constructor (an empty buffer), with the bytes the
\* port is going to produce: stream is the whole byte stream, arrived counts
\* the bytes already handed over in 'data' events, events counts those
\* events, delivered lists the frames
\* given to delegate.onMessage, crashed tells that a call of the delegate
\* threw out of the 'data' listener
SerialClient(stream) ==
  [buffer |-> << >>, delivered |-> << >>, crashed |-> FALSE,
   stream |-> stream, arrived |-> 0, events |-> 0]

\* the while loop of onMessage: as long as the buffer holds a length byte and
\* that many bytes after it, the bytes after the length byte go to the
\* delegate and the buffer moves past them; the delegate throws in its
\* throwAt-th call of this run (0: in none), before the buffer moves
RECURSIVE deliverFrames(_, _, _)
deliverFrames(c, k, throwAt) ==
  IF c.buffer = << >> \/ c.buffer[1] + 1 > Len(c.buffer)
    THEN c
    ELSE IF k = throwAt
      THEN [c EXCEPT !.delivered = Append(@, SubSeq(c.buffer, 2, c.buffer[1] + 1)),
                     !.crashed = TRUE]
      ELSE deliverFrames(
             [c EXCEPT !.delivered = Append(@, SubSeq(c.buffer, 2, c.buffer[1] + 1)),
                       !.buffer = SubSeq(@, c.buffer[1] + 2, Len(@))],
             k + 1, throwAt)

\* onMessage with the buffered bytes forgotten when new data arrives
serialOnMessageDropsBuffer(c, data, throwAt) ==
  deliverFrames([c EXCEPT !.buffer = data], 1, throwAt)

\* JerryDebuggerSerialClient.onMessage(data)
serialOnMessage(c, data, throwAt) ==
  deliverFrames([c EXCEPT !.buffer = @ \o data], 1, throwAt)

\* no JerryUtils function is under study
NoCall == [op |-> ""]

\* value of last while the handler waits for the next event
Idle ==
  [op |-> "", frame |-> << >>, n |-> 0, flag |-> FALSE, ran |-> "",
   outcome |-> "", threw |-> FALSE, aborts |-> 0, seen |-> << >>]

Init ==
  /\ handler = InitHandler
  /\ parsedFunctions = << >>
  /\ breakpoints = << >>
  /\ delegate \in Delegates
  /\ sent = << >>
  /\ calls = << >>
  /\ settled = << >>
  /\ last = Idle
  /\ configSeen = FALSE
  /\ fatalReported = FALSE
  /\ hung = FALSE
  /\ closed = FALSE
  /\ serial = SerialClient(<< >>)
  /\ applied = NoCall

\* one step: the operation op, with its arguments, took the handler to m
\* (r is m, computed once)
Do(op, frame, n, flag, m) ==
  /\ ~hung
  /\ last = Idle
  /\ \E r \in {m} :
       /\ Bounded(r)
       /\ handler' = r.h
       /\ parsedFunctions' = r.pf
       /\ breakpoints' = r.bp
       /\ sent' = r.sent
       /\ calls' = r.calls
       /\ settled' = r.settled
       /\ last' = [op |-> op, frame |-> frame, n |-> n, flag |-> flag,
                   ran |-> r.ran, outcome |-> r.outcome, threw |-> r.threw,
                   aborts |-> r.aborts, seen |-> r.seen]
       /\ fatalReported' = (fatalReported \/ r.aborts > 0)
       /\ hung' = r.hung
  /\ configSeen' = (configSeen \/ (op = "onMessage" /\ frame # << >>
                                   /\ frame[1] = JERRY_DEBUGGER_CONFIGURATION))
  /\ UNCHANGED <<delegate, closed, serial, applied>>

\* the call returns to the event loop (the handler is a single-threaded
\* reactor): what was observed of the step is dropped, the objects stay
Return ==
  /\ ~hung
  /\ last # Idle
  /\ sent' = << >>
  /\ calls' = << >>
  /\ settled' = << >>
  /\ last' = Idle
  /\ UNCHANGED <<handler, parsedFunctions, breakpoints, delegate, configSeen,
                 fatalReported, hung, closed, serial, applied>>

Receive(frames) ==
  \E message \in frames, plan \in SendPlans :
    Do("onMessage", message, 0, FALSE, onMessage(Start(plan), message))

Pause == \E plan \in SendPlans : Do("pause", << >>, 0, FALSE, pause(Start(plan)))
StepOver ==
  \E plan \in SendPlans : Do("stepOver", << >>, 0, FALSE, stepOver(Start(plan)))
StepInto ==
  \E plan \in SendPlans : Do("stepInto", << >>, 0, FALSE, stepInto(Start(plan)))
StepOut ==
  \E plan \in SendPlans : Do("stepOut", << >>, 0, FALSE, stepOut(Start(plan)))
Resume ==
  \E plan \in SendPlans : Do("resume", << >>, 0, FALSE, resume(Start(plan)))
Evaluate ==
  \E expression \in Expressions, plan \in SendPlans :
    Do("evaluate", expression, 0, FALSE, evaluate(Start(plan), expression))
RequestBacktrace ==
  \E plan \in SendPlans :
    Do("requestBacktrace", << >>, 0, FALSE, requestBacktrace(Start(plan)))

\* the facade holds the breakpoints of the functions it has been shown
Obtainable ==
  {b \in 1..Len(breakpoints) : parsedFunctions[breakpoints[b].func].promoted}

UpdateBreakpoint ==
  \E b \in Obtainable, enable \in BOOLEAN, plan \in SendPlans :
    Do("updateBreakpoint", << >>, b, enable,
       updateBreakpoint(Start(plan), b, enable))

SendClientSource ==
  \E fileSourceCode \in Expressions, plan \in SendPlans :
    Do("sendClientSource", fileSourceCode, 0, FALSE,
       sendClientSource(Start(plan), <<102>>, fileSourceCode))

SendClientSourceControl ==
  \E code \in ControlCodes, plan \in SendPlans :
    Do("sendClientSourceControl", << >>, code, FALSE,
       sendClientSourceControl(Start(plan), code))

Commands ==
  \/ Pause \/ StepOver \/ StepInto \/ StepOut \/ Resume \/ Evaluate
  \/ RequestBacktrace \/ UpdateBreakpoint \/ SendClientSource
  \/ SendClientSourceControl

AllFrames ==
  ConfigurationFrames \cup MalformedFrames \cup TextFrames \cup ParserFrames
    \cup ExecutionFrames

Next == Receive(AllFrames) \/ Commands \/ Return

Spec == Init /\ [][Next]_vars

\* a delegate that provides every callback
InitFull == Init /\ delegate = AllCallbacks

\* the handshake: every CONFIGURATION frame, malformed frames and frames of
\* handlers that need no parsed function
HandshakeFrames ==
  ConfigurationFrames \cup MalformedFrames \cup
    { <<JERRY_DEBUGGER_SOURCE_CODE_NAME_END, 98>>,
      <<JERRY_DEBUGGER_WAIT_FOR_SOURCE>> }

NextHandshake == Receive(HandshakeFrames) \/ Pause \/ Return

SpecHandshake == Init /\ [][NextHandshake]_vars

\* breakpoints: functions with two breakpoints, on two lines or on one line,
\* created, shown, released and re-created, and their breakpoints toggled
BreakpointFrames ==
  { GoodConfiguration,
    <<JERRY_DEBUGGER_SOURCE_CODE_END, 97>>,
    <<JERRY_DEBUGGER_BREAKPOINT_LIST, 5, 0, 0, 0, 5, 0, 0, 0>>,
    <<JERRY_DEBUGGER_BREAKPOINT_OFFSET_LIST, 10, 0, 0, 0, 20, 0, 0, 0>>,
    <<JERRY_DEBUGGER_BYTE_CODE_CP, 42, 0>>,
    <<JERRY_DEBUGGER_RELEASE_BYTE_CODE_CP, 42, 0>> }

NextBreakpoints == Receive(BreakpointFrames) \/ UpdateBreakpoint \/ Return

SpecBreakpoints == InitFull /\ [][NextBreakpoints]_vars

\* a session that has been configured and has parsed one script whose only
\* function has a breakpoint on line 5 and one on line 7
SessionPrefix ==
  << GoodConfiguration,
     <<JERRY_DEBUGGER_SOURCE_CODE_END, 97>>,
     <<JERRY_DEBUGGER_BREAKPOINT_LIST, 5, 0, 0, 0, 7, 0, 0, 0>>,
     <<JERRY_DEBUGGER_BREAKPOINT_OFFSET_LIST, 10, 0, 0, 0, 20, 0, 0, 0>>,
     <<JERRY_DEBUGGER_BYTE_CODE_CP, 42, 0>> >>

\* a handler just constructed, on a transport that accepts every send
Fresh ==
  [ h |-> InitHandler, pf |-> << >>, bp |-> << >>,
    plan |-> [i \in 1..MaxSends |-> TRUE], sent |-> << >>, calls |-> << >>,
    seen |-> << >>, settled |-> << >>, aborts |-> 0, ran |-> "", threw |-> FALSE,
    hung |-> FALSE, ok |-> TRUE, outcome |-> "" ]

\* the next call on the objects a call has left
Rearm(m) == [Fresh EXCEPT !.h = m.h, !.pf = m.pf, !.bp = m.bp]

\* the frames delivered to onMessage one after the other
RECURSIVE Replay(_, _)
Replay(m, frames) ==
  IF frames = << >> THEN m
  ELSE Replay(onMessage(Rearm(m), Head(frames)), Tail(frames))

\* the state variables hold what the calls of a session prefix have left
\* (r is m, computed once)
After(m) ==
  /\ delegate = AllCallbacks
  /\ \E r \in {m} :
       /\ handler = r.h
       /\ parsedFunctions = r.pf
       /\ breakpoints = r.bp
  /\ sent = << >>
  /\ calls = << >>
  /\ settled = << >>
  /\ last = Idle
  /\ configSeen = TRUE
  /\ fatalReported = FALSE
  /\ hung = FALSE
  /\ closed = FALSE
  /\ serial = SerialClient(<< >>)
  /\ applied = NoCall

InitSession == After(Replay(Fresh, SessionPrefix))

\* the same session with the breakpoint of line 5 enabled and hit
InitHalted ==
  After(onMessage(
          Rearm(updateBreakpoint(Rearm(Replay(Fresh, SessionPrefix)), 1, TRUE)),
          <<JERRY_DEBUGGER_BREAKPOINT_HIT, 42, 0, 10, 0, 0, 0>>))

\* requests: the program halts at the first breakpoint of the session and
\* the client issues every command
RequestFrames ==
  { <<JERRY_DEBUGGER_BREAKPOINT_HIT, 42, 0, 10, 0, 0, 0>>,
    <<JERRY_DEBUGGER_WAIT_FOR_SOURCE>> }

NextRequests == Receive(RequestFrames) \/ Commands \/ Return

SpecRequests == InitSession /\ [][NextRequests]_vars

\* the eval gate: parser and release frames arriving while the session is
\* halted and an eval is, or is not, outstanding
GateFrames ==
  { <<JERRY_DEBUGGER_EVAL_RESULT_END, 98, JERRY_DEBUGGER_EVAL_OK>>,
    <<JERRY_DEBUGGER_SOURCE_CODE, 10>>,
    <<JERRY_DEBUGGER_SOURCE_CODE_END, 97>>,
    <<JERRY_DEBUGGER_BREAKPOINT_LIST, 5, 0, 0, 0, 7, 0, 0, 0>>,
    <<JERRY_DEBUGGER_BREAKPOINT_OFFSET_LIST, 10, 0, 0, 0, 20, 0, 0, 0>>,
    <<JERRY_DEBUGGER_BYTE_CODE_CP, 43, 0>>,
    <<JERRY_DEBUGGER_RELEASE_BYTE_CODE_CP, 42, 0>> }

NextGate == Receive(GateFrames) \/ Evaluate \/ Return

SpecGate == InitHalted /\ [][NextGate]_vars

\* evals: the session halted, evaluate requests and the frames that answer
\* them or do not
EvalFrames ==
  { <<JERRY_DEBUGGER_BREAKPOINT_HIT, 42, 0, 10, 0, 0, 0>>,
    <<JERRY_DEBUGGER_EVAL_RESULT, 97>>,
    <<JERRY_DEBUGGER_EVAL_RESULT_END, 98, JERRY_DEBUGGER_EVAL_OK>>,
    <<JERRY_DEBUGGER_WAIT_FOR_SOURCE>> }

NextEval == Receive(EvalFrames) \/ Evaluate \/ Resume \/ Return

SpecEval == InitHalted /\ [][NextEval]_vars

----------------------------------------------------------------------------
(* The handshake (SpecHandshake) *)

\* the step just taken delivered a frame to onMessage
Delivered(tags) ==
  /\ last'.op = "onMessage"
  /\ last'.frame # << >>
  /\ last'.frame[1] \in tags

ObjectsUnchanged ==
  /\ handler' = handler
  /\ parsedFunctions' = parsedFunctions
  /\ breakpoints' = breakpoints

OnlyOnError == \A i \in 1..Len(calls') : calls'[i].cb = "onError"

\* C1: as long as no CONFIGURATION frame has been received, a frame with
\* another tag is rejected: abort runs once (on_error is invoked when the
\* delegate provides it, and nothing else is), no per-tag handler runs and
\* the handler and its objects are left as they were.
C1_FirstFrameMustBeConfiguration ==
  [][ (~configSeen /\ Delivered(0..255 \ {JERRY_DEBUGGER_CONFIGURATION}))
        => /\ last'.aborts = 1
           /\ last'.ran = ""
           /\ ObjectsUnchanged
           /\ OnlyOnError
           /\ ("onError" \in delegate
                 => Len(calls') = 1 /\ calls'[1].cb = "onError") ]_vars

\* a WAIT_FOR_SOURCE frame was rejected as the first frame of a session
\* whose delegate provides onError
C1_Witness ==
  /\ ~configSeen
  /\ last.op = "onMessage"
  /\ last.frame = <<JERRY_DEBUGGER_WAIT_FOR_SOURCE>>
  /\ last.aborts = 1
  /\ Len(calls) = 1
  /\ ~handler.waitForSourceEnabled

\* C2: after a fatal protocol error has been reported the session is ended:
\* no later frame is dispatched to a handler, changes the handler or
\* triggers a delegate callback other than on_error.
C2_SessionEndedAfterFatalError ==
  [][ (fatalReported /\ last'.op = "onMessage")
        => /\ last'.ran = ""
           /\ ObjectsUnchanged
           /\ OnlyOnError ]_vars

\* a frame was dispatched, and its callback made, after an earlier frame had
\* been reported as a fatal error
C2_Witness ==
  /\ fatalReported
  /\ last.op = "onMessage"
  /\ last.aborts = 0
  /\ last.ran = "onWaitForSource"
  /\ handler.waitForSourceEnabled
  /\ \E i \in 1..Len(calls) : calls[i].cb = "onWaitForSource"

\* the handshake has been accepted: a CONFIGURATION frame has set a pointer
\* size of 2 or 4 and the expected version, and no error has been reported
Configured ==
  /\ configSeen
  /\ ~fatalReported
  /\ handler.byteConfig.cpointerSize \in {2, 4}
  /\ handler.version = JERRY_DEBUGGER_VERSION

\* C3: the ByteConfig is assigned once, by the first CONFIGURATION frame: no
\* later frame, a second CONFIGURATION frame included, changes it.
C3_ByteConfigAssignedOnce ==
  [][ Configured => handler'.byteConfig = handler.byteConfig ]_vars

\* a second CONFIGURATION frame has replaced 2-byte little-endian pointers
\* by 4-byte big-endian ones
C3_Witness ==
  /\ last.op = "onMessage"
  /\ last.frame = <<JERRY_DEBUGGER_CONFIGURATION, 8, 4, 0,
                    JERRY_DEBUGGER_VERSION>>
  /\ last.aborts = 0
  /\ ~fatalReported
  /\ handler.byteConfig = [cpointerSize |-> 4, littleEndian |-> FALSE]
  /\ handler.maxMessageSize = 8
  /\ handler.nextScriptID = 1

\* the reasons to reject a CONFIGURATION frame
BadConfiguration(data) ==
  \/ Len(data) < 5
  \/ data[3] \notin {2, 4}
  \/ data[5] # JERRY_DEBUGGER_VERSION

\* C4: a CONFIGURATION frame is rejected exactly when it is shorter than 5
\* bytes, its pointer size is not 2 or 4, or its version is not the expected
\* one; a rejected frame is reported by exactly one on_error call and an
\* accepted frame by none.
C4_ConfigurationRejectedOnce ==
  [][ Delivered({JERRY_DEBUGGER_CONFIGURATION})
        => /\ last'.aborts = (IF BadConfiguration(last'.frame) THEN 1 ELSE 0)
           /\ ("onError" \in delegate => Len(calls') = last'.aborts) ]_vars

\* a CONFIGURATION frame with pointer size 3 and a wrong version was
\* reported twice
C4_Witness ==
  /\ last.op = "onMessage"
  /\ last.frame = <<JERRY_DEBUGGER_CONFIGURATION, 6, 3, 1,
                    JERRY_DEBUGGER_VERSION + 1>>
  /\ last.aborts = 2
  /\ Len(calls) = 2

----------------------------------------------------------------------------
(* The eval gate (SpecGate) *)

GatedTypes ==
  { JERRY_DEBUGGER_SOURCE_CODE, JERRY_DEBUGGER_SOURCE_CODE_END,
    JERRY_DEBUGGER_BREAKPOINT_LIST, JERRY_DEBUGGER_BREAKPOINT_OFFSET_LIST,
    JERRY_DEBUGGER_BYTE_CODE_CP, JERRY_DEBUGGER_RELEASE_BYTE_CODE_CP }

\* C5: while evalsPending > 0, a SOURCE_CODE, SOURCE_CODE_END,
\* BREAKPOINT_LIST, BREAKPOINT_OFFSET_LIST, BYTE_CODE_CP or
\* RELEASE_BYTE_CODE_CP frame leaves the script table, functions and
\* newFunctions, the line lists, nextScriptID and the active breakpoints as
\* they were, creates no function or breakpoint and calls no onScriptParsed.
C5_ParserFramesIgnoredWhileEvalsPending ==
  [][ (handler.evalsPending > 0 /\ Delivered(GatedTypes))
        => /\ handler'.sources = handler.sources
           /\ handler'.functions = handler.functions
           /\ handler'.newFunctions = handler.newFunctions
           /\ handler'.lineLists = handler.lineLists
           /\ handler'.nextScriptID = handler.nextScriptID
           /\ handler'.activeBreakpoints = handler.activeBreakpoints
           /\ parsedFunctions' = parsedFunctions
           /\ breakpoints' = breakpoints
           /\ \A i \in 1..Len(calls') : calls'[i].cb # "onScriptParsed" ]_vars

\* a RELEASE_BYTE_CODE_CP frame for the function of the session arrived
\* while an eval was pending: the function and its active breakpoint are
\* still there, and the frame was answered
C5_Witness ==
  /\ last.op = "onMessage"
  /\ last.frame = <<JERRY_DEBUGGER_RELEASE_BYTE_CODE_CP, 42, 0>>
  /\ handler.evalsPending > 0
  /\ 42 \in DOMAIN handler.functions
  /\ 0 \in DOMAIN handler.activeBreakpoints
  /\ Len(sent) = 1
  /\ sent[1].data = <<JERRY_DEBUGGER_FREE_BYTE_CODE_CP, 42, 0>>

----------------------------------------------------------------------------
(* Breakpoints (SpecBreakpoints) *)

\* the slot of activeBreakpoints that holds breakpoint b, if any
Holds(h, bp, b) ==
  /\ bp[b].activeIndex \in DOMAIN h.activeBreakpoints
  /\ h.activeBreakpoints[bp[b].activeIndex] = b

\* the UPDATE_BREAKPOINT frame of breakpoint b for 2-byte little-endian
\* pointers: tag, enable, byteCodeCP, offset
UpdateFrame(b, enable) ==
  LET cp == parsedFunctions[breakpoints[b].func].byteCodeCP
      offset == Get(breakpoints[b].offset)
  IN  << JERRY_DEBUGGER_UPDATE_BREAKPOINT, IF enable THEN 1 ELSE 0,
         cp % 256, cp \div 256,
         offset % 256, (offset \div 256) % 256,
         (offset \div 65536) % 256, offset \div 16777216 >>

\* C6: updateBreakpoint(b, true) on an inactive b that resolves leaves
\* b.activeIndex >= 0 with activeBreakpoints[b.activeIndex] = b;
\* updateBreakpoint(b, false) on a b active at index i that resolves leaves
\* b.activeIndex = -1 and slot i empty; each successful call hands exactly
\* one UPDATE_BREAKPOINT frame [tag, enable, byteCodeCP, offset] to the
\* transport.
C6_UpdateBreakpointEffect ==
  [][ (last'.op = "updateBreakpoint" /\ last'.outcome = "resolved")
        => LET b == last'.n
               i == breakpoints[b].activeIndex
           IN  /\ (last'.flag /\ i = -1)
                     => /\ breakpoints'[b].activeIndex >= 0
                        /\ Holds(handler', breakpoints', b)
               /\ (~last'.flag /\ i >= 0)
                     => /\ breakpoints'[b].activeIndex = -1
                        /\ i \notin DOMAIN handler'.activeBreakpoints
               /\ Len(sent') = 1
               /\ sent'[1].accepted
               /\ IsSome(breakpoints[b].offset)
               /\ sent'[1].data = UpdateFrame(b, last'.flag) ]_vars

\* the second breakpoint of a function was enabled, at index 0
C6_WitnessEnable ==
  /\ last.op = "updateBreakpoint"
  /\ last.outcome = "resolved"
  /\ last.flag
  /\ last.n = 2
  /\ breakpoints[2].activeIndex = 0
  /\ handler.activeBreakpoints[0] = 2
  /\ sent = << [data |-> <<JERRY_DEBUGGER_UPDATE_BREAKPOINT, 1, 42, 0,
                           20, 0, 0, 0>>,
                accepted |-> TRUE] >>

\* the functions of the function table and of the line lists
TableFunctions ==
  {handler.functions[cp] : cp \in DOMAIN handler.functions}
    \cup UNION { UNION { {handler.lineLists[s][l][j] :
                            j \in 1..Len(handler.lineLists[s][l])} :
                         l \in DOMAIN handler.lineLists[s] } :
                 s \in DOMAIN handler.lineLists }

\* the breakpoints a function holds in lines and in offsets
BreakpointsOf(f) ==
  {parsedFunctions[f].lines[l] : l \in DOMAIN parsedFunctions[f].lines}
    \cup {parsedFunctions[f].offsets[o] :
            o \in DOMAIN parsedFunctions[f].offsets}

\* C7: for every breakpoint b reachable from the function table or the line
\* lists, b.activeIndex >= 0 exactly when activeBreakpoints[b.activeIndex]
\* is b, and every occupied slot i of activeBreakpoints holds a breakpoint
\* whose activeIndex is i.
C7_ActiveIndexMatchesSlot ==
  /\ \A f \in TableFunctions : \A b \in BreakpointsOf(f) :
        (breakpoints[b].activeIndex >= 0) <=> Holds(handler, breakpoints, b)
  /\ \A i \in DOMAIN handler.activeBreakpoints :
        breakpoints[handler.activeBreakpoints[i]].activeIndex = i

\* a breakpoint has been enabled and disabled again, and its function is
\* still in the function table and the line lists
C7_Witness ==
  /\ last.op = "updateBreakpoint"
  /\ last.outcome = "resolved"
  /\ ~last.flag
  /\ breakpoints[last.n].func \in TableFunctions
  /\ last.n \in BreakpointsOf(breakpoints[last.n].func)
  /\ breakpoints[last.n].activeIndex = -1
  /\ handler.activeBreakpoints = EmptyMap
  /\ handler.nextBreakpointIndex = 1

\* the key of a breakpoint in the offsets of its function
OffsetKey(b) ==
  IF IsSome(breakpoints[b].offset) THEN Get(breakpoints[b].offset)
  ELSE UndefinedKey

\* C8: every breakpoint b created for a function, whatever lists the
\* BREAKPOINT_LIST and BREAKPOINT_OFFSET_LIST frames delivered, satisfies
\* func.lines[b.line] = b and func.offsets[b.offset] = b, and is held by no
\* other function.
C8_BreakpointIndexedByLineAndOffset ==
  \A b \in 1..Len(breakpoints) :
    LET f == breakpoints[b].func
    IN  /\ breakpoints[b].line \in DOMAIN parsedFunctions[f].lines
        /\ parsedFunctions[f].lines[breakpoints[b].line] = b
        /\ OffsetKey(b) \in DOMAIN parsedFunctions[f].offsets
        /\ parsedFunctions[f].offsets[OffsetKey(b)] = b
        /\ \A g \in 1..Len(parsedFunctions) :
              b \in BreakpointsOf(g) => g = f

\* a function was built from the lines 5, 5 and the offsets 10, 20: its
\* first breakpoint is in offsets but lines[5] is the second one
C8_Witness ==
  /\ Len(parsedFunctions) = 1
  /\ Len(breakpoints) = 2
  /\ breakpoints[1].line = 5
  /\ breakpoints[1].offset = Some(10)
  /\ parsedFunctions[1].offsets[10] = 1
  /\ parsedFunctions[1].lines[5] = 2
  /\ 42 \in DOMAIN handler.functions

----------------------------------------------------------------------------
(* Commands (SpecRequests) *)

\* the command the step is about to run has its precondition violated
PreconditionViolated(op, n, flag) ==
  \/ op = "pause" /\ IsSome(handler.lastBreakpointHit)
  \/ /\ op \in {"stepOver", "stepInto", "stepOut", "resume", "evaluate",
                 "requestBacktrace"}
     /\ ~IsSome(handler.lastBreakpointHit)
  \/ op = "updateBreakpoint" /\ flag /\ breakpoints[n].activeIndex >= 0
  \/ op = "updateBreakpoint" /\ ~flag /\ breakpoints[n].activeIndex = -1
  \/ op = "sendClientSource" /\ ~handler.waitForSourceEnabled
  \/ /\ op = "sendClientSourceControl"
     /\ n \notin {JERRY_DEBUGGER_NO_MORE_SOURCES,
                   JERRY_DEBUGGER_CONTEXT_RESET}

\* C9: a command whose precondition is violated fails for its caller only:
\* its promise is rejected, nothing is handed to the transport, no callback
\* is made, no request is settled and the handler and its objects are left
\* as they were.
C9_RejectedCommandChangesNothing ==
  [][ (last' # Idle /\ PreconditionViolated(last'.op, last'.n, last'.flag))
        => /\ last'.outcome = "rejected: state"
           /\ ~last'.threw
           /\ last'.aborts = 0
           /\ sent' = << >>
           /\ calls' = << >>
           /\ settled' = << >>
           /\ ObjectsUnchanged ]_vars

\* resume was rejected while the program was running and a breakpoint was
\* active
C9_Witness ==
  /\ last.op = "resume"
  /\ last.outcome = "rejected: state"
  /\ ~IsSome(handler.lastBreakpointHit)
  /\ 0 \in DOMAIN handler.activeBreakpoints
  /\ sent = << >>

----------------------------------------------------------------------------
(* Evals (SpecEval) *)

\* C10: a pending evaluate request is completed exactly when the
\* EVAL_RESULT_END frame of its response is processed: no other frame, an
\* EVAL_RESULT continuation frame included, resolves it, and it resolves
\* with the subtype and the complete decoded value of the response.
C10_EvalResolvedByResultEnd ==
  [][ /\ \A i \in 1..Len(settled') :
           (settled'[i].owner = "evaluate" /\ settled'[i].how = "resolve")
             => /\ Delivered({JERRY_DEBUGGER_EVAL_RESULT_END})
                /\ settled'[i].kind = "eval"
                /\ settled'[i].n = last'.frame[Len(last'.frame)]
                /\ \E j \in 1..Len(calls') :
                      /\ calls'[j].cb = "onEvalResult"
                      /\ calls'[j].s = settled'[i].s
      /\ ( /\ Delivered({JERRY_DEBUGGER_EVAL_RESULT_END})
           /\ IsSome(handler.currentRequest)
           /\ Get(handler.currentRequest).owner = "evaluate" )
          => \E i \in 1..Len(settled') :
               settled'[i].owner = "evaluate" /\ settled'[i].how = "resolve"
    ]_vars

\* an EVAL_RESULT continuation frame resolved the pending evaluate request,
\* with subtype -1 and an empty value, while the eval is still counted as
\* pending and its bytes are still in the buffer
C10_Witness ==
  /\ last.op = "onMessage"
  /\ last.frame = <<JERRY_DEBUGGER_EVAL_RESULT, 97>>
  /\ Len(settled) = 1
  /\ settled[1].owner = "evaluate"
  /\ settled[1].how = "resolve"
  /\ settled[1].n = -1
  /\ settled[1].s = << >>
  /\ handler.currentRequest = None
  /\ handler.evalsPending = 1
  /\ handler.evalResultData = Some(<<97>>)

----------------------------------------------------------------------------
(* Backtraces (SpecBacktrace) *)

\* backtraces: the session halted, backtrace requests and the frames of
\* their responses
BacktraceFrames ==
  { <<JERRY_DEBUGGER_BACKTRACE, 42, 0, 10, 0, 0, 0>>,
    <<JERRY_DEBUGGER_BACKTRACE_END, 42, 0, 20, 0, 0, 0>>,
    <<JERRY_DEBUGGER_BACKTRACE_END>>,
    <<JERRY_DEBUGGER_WAIT_FOR_SOURCE>> }

NextBacktrace == Receive(BacktraceFrames) \/ RequestBacktrace \/ Return

SpecBacktrace == InitHalted /\ [][NextBacktrace]_vars

\* the request in flight is the one of a requestBacktrace call, and its
\* promise is not settled yet
BacktracePending ==
  /\ IsSome(handler.currentRequest)
  /\ Get(handler.currentRequest).owner = "requestBacktrace"
  /\ Get(handler.currentRequest).state = "pending"

\* C11: a pending requestBacktrace request is completed exactly when the
\* BACKTRACE_END frame is processed: no BACKTRACE frame before it resolves
\* the request, and the result is the list accumulated from the BACKTRACE
\* frames followed by the entries of the BACKTRACE_END frame, the list given
\* to on_backtrace.
C11_BacktraceResolvedByBacktraceEnd ==
  [][ /\ \A i \in 1..Len(settled') :
           (settled'[i].owner = "requestBacktrace"
              /\ settled'[i].how = "resolve")
             => /\ Delivered({JERRY_DEBUGGER_BACKTRACE_END})
                /\ settled'[i].kind = "backtrace"
                /\ Len(settled'[i].s) =
                     Len(handler.backtrace) + (Len(last'.frame) - 1) \div 6
                /\ SubSeq(settled'[i].s, 1, Len(handler.backtrace)) =
                     Refs(handler.backtrace)
                /\ \E j \in 1..Len(calls') :
                      /\ calls'[j].cb = "onBacktrace"
                      /\ calls'[j].s = settled'[i].s
      /\ (Delivered({JERRY_DEBUGGER_BACKTRACE_END}) /\ BacktracePending)
          => \E i \in 1..Len(settled') :
               /\ settled'[i].owner = "requestBacktrace"
               /\ settled'[i].how = "resolve"
    ]_vars

\* a BACKTRACE frame that is not the last of its response resolved the
\* pending requestBacktrace request, with an empty list, while the entry of
\* the frame waits in the accumulator
C11_Witness ==
  /\ last.op = "onMessage"
  /\ last.frame = <<JERRY_DEBUGGER_BACKTRACE, 42, 0, 10, 0, 0, 0>>
  /\ Len(settled) = 1
  /\ settled[1].owner = "requestBacktrace"
  /\ settled[1].how = "resolve"
  /\ settled[1].s = << >>
  /\ handler.currentRequest = None
  /\ handler.backtrace = <<Some(1)>>

----------------------------------------------------------------------------
(* Fragmented commands (SpecFragments) *)

\* a session whose engine accepts messages of at most 6 bytes
SmallConfiguration ==
  <<JERRY_DEBUGGER_CONFIGURATION, 6, 2, 1, JERRY_DEBUGGER_VERSION>>

\* the session of SessionPrefix opened by another CONFIGURATION frame, its
\* first breakpoint enabled and hit
Halted(configuration) ==
  onMessage(
    Rearm(updateBreakpoint(
            Rearm(Replay(Fresh, <<configuration>> \o Tail(SessionPrefix))),
            1, TRUE)),
    <<JERRY_DEBUGGER_BREAKPOINT_HIT, 42, 0, 10, 0, 0, 0>>)

InitFragments == After(Halted(SmallConfiguration))

\* the expression "foobar"
LongExpressions == { <<102, 111, 111, 98, 97, 114>> }

EvaluateLong ==
  \E expression \in LongExpressions, plan \in SendPlans :
    Do("evaluate", expression, 0, FALSE, evaluate(Start(plan), expression))

FragmentFrames ==
  { <<JERRY_DEBUGGER_BREAKPOINT_HIT, 42, 0, 10, 0, 0, 0>>,
    <<JERRY_DEBUGGER_EVAL_RESULT_END, 98, JERRY_DEBUGGER_EVAL_OK>>,
    <<JERRY_DEBUGGER_BACKTRACE_END>>,
    <<JERRY_DEBUGGER_WAIT_FOR_SOURCE>> }

NextFragments ==
  \/ Receive(FragmentFrames)
  \/ Evaluate
  \/ EvaluateLong
  \/ StepOver
  \/ RequestBacktrace
  \/ SendClientSource
  \/ Return

SpecFragments == InitFragments /\ [][NextFragments]_vars

\* the step just taken was a call of evaluate that passed its check
Evaluated == last'.op = "evaluate" /\ last'.outcome # "rejected: state"

\* C12: when evaluate is called while halted, with no tracked request in
\* flight or queued and a transport that accepts every send, every packet of
\* the command is handed to the transport by the call itself, none waits in
\* the queue for an inbound frame; with a message size of 6 the expression
\* "foobar" is handed over as three packets.
C12_EvaluateSendsEveryPacket ==
  [][ ( /\ Evaluated
        /\ handler.currentRequest = None
        /\ handler.requestQueue = << >>
        /\ \A i \in 1..Len(sent') : sent'[i].accepted )
        => /\ handler'.requestQueue = << >>
           /\ Len(sent') >= 1
           /\ sent'[1].data[1] = JERRY_DEBUGGER_EVAL
           /\ \A i \in 2..Len(sent') :
                 sent'[i].data[1] = JERRY_DEBUGGER_EVAL_PART
           /\ ( /\ handler.maxMessageSize = 6
                /\ last'.frame \in LongExpressions ) => Len(sent') = 3
    ]_vars

\* evaluate("foobar") was called with nothing in flight and the transport
\* accepted the EVAL packet: the two EVAL_PART packets were not sent but
\* wait in the request queue
C12_Witness ==
  /\ last.op = "evaluate"
  /\ last.frame \in LongExpressions
  /\ last.outcome = "pending"
  /\ sent = << [data |-> <<JERRY_DEBUGGER_EVAL, 7, 0, 0, 0, 0>>,
                accepted |-> TRUE] >>
  /\ IsSome(handler.currentRequest)
  /\ Len(handler.requestQueue) = 2
  /\ handler.requestQueue[1].data =
       <<JERRY_DEBUGGER_EVAL_PART, 102, 111, 111, 98, 97>>
  /\ handler.requestQueue[2].data = <<JERRY_DEBUGGER_EVAL_PART, 114>>

\* an evaluate command is under way: one of its packets has left the queue
\* or was sent at once, and its next EVAL_PART packet is the head of the
\* queue
FragmentsOutstanding ==
  /\ handler.requestQueue # << >>
  /\ Head(handler.requestQueue).data[1] = JERRY_DEBUGGER_EVAL_PART

\* C13: between the EVAL packet of an evaluate command and the last of its
\* EVAL_PART packets the transport is handed no packet but the next packets
\* of that command, whatever commands and frames arrive meanwhile; and the
\* CLIENT_SOURCE packet of sendClientSource is followed at once by all its
\* CLIENT_SOURCE_PART packets, none of which is left in the queue.
C13_FragmentsContiguous ==
  [][ /\ FragmentsOutstanding
          => /\ Len(sent') <= Len(handler.requestQueue)
             /\ \A i \in 1..Len(sent') :
                   sent'[i].data = handler.requestQueue[i].data
      /\ (last'.op = "sendClientSource" /\ sent' # << >>)
          => /\ sent'[1].data[1] = JERRY_DEBUGGER_CLIENT_SOURCE
             /\ \A i \in 2..Len(sent') :
                   sent'[i].data[1] = JERRY_DEBUGGER_CLIENT_SOURCE_PART
             /\ \A i \in 1..Len(handler'.requestQueue) :
                   handler'.requestQueue[i].data[1]
                     # JERRY_DEBUGGER_CLIENT_SOURCE_PART
    ]_vars

\* stepOver was called after the EVAL packet of evaluate("foobar") had been
\* sent: its NEXT packet went to the transport while both EVAL_PART packets
\* of the command still wait in the queue
C13_Witness ==
  /\ last.op = "stepOver"
  /\ last.outcome = "resolved"
  /\ sent = << [data |-> <<JERRY_DEBUGGER_NEXT>>, accepted |-> TRUE] >>
  /\ IsSome(handler.currentRequest)
  /\ Get(handler.currentRequest).data = <<JERRY_DEBUGGER_EVAL, 7, 0, 0, 0, 0>>
  /\ Len(handler.requestQueue) = 2
  /\ handler.requestQueue[1].data =
       <<JERRY_DEBUGGER_EVAL_PART, 102, 111, 111, 98, 97>>

----------------------------------------------------------------------------
(* The packets of evaluate (SpecPackets) *)

\* sessions of every message size from 2 and of both byte orders, halted
InitPackets ==
  \E size \in 2..MaxMessageSize, endian \in {0, 1} :
    After(Halted(<<JERRY_DEBUGGER_CONFIGURATION, size, 2, endian,
                   JERRY_DEBUGGER_VERSION>>))

\* expressions of code units that CESU-8 encodes in one and in three bytes
PacketExpressions ==
  UNION { [1..n -> {97, 8364}] : n \in 0..MaxExpression }

EvaluateAny ==
  \E expression \in PacketExpressions, plan \in SendPlans :
    Do("evaluate", expression, 0, FALSE, evaluate(Start(plan), expression))

NextPackets == EvaluateAny \/ Return

SpecPackets == InitPackets /\ [][NextPackets]_vars

\* the packets the step has built: the ones handed to the transport and
\* the ones appended to the queue
Built ==
  [i \in 1..Len(sent') |-> sent'[i].data]
    \o [i \in 1..(Len(handler'.requestQueue) - Len(handler.requestQueue)) |->
          handler'.requestQueue[Len(handler.requestQueue) + i].data]

\* the bytes after the tag byte of every packet, in order
RECURSIVE Carried(_)
Carried(packets) ==
  IF packets = << >> THEN << >>
  ELSE Tail(Head(packets)) \o Carried(Tail(packets))

\* the payload of evaluate: the subtype byte and the encoded expression
Payload(expression) ==
  <<JERRY_DEBUGGER_EVAL_EVAL>> \o cesu8Encode(expression)

\* the length n as four bytes of the session's byte order
LengthBytes(n) ==
  IF handler.byteConfig.littleEndian
    THEN <<n % 256, (n \div 256) % 256, (n \div 65536) % 256, n \div 16777216>>
    ELSE <<n \div 16777216, (n \div 65536) % 256, (n \div 256) % 256, n % 256>>

\* what every packet sequence of evaluate satisfies: sizes, tags, and the
\* bytes carried
PacketsWellFormed(packets, expression) ==
  /\ packets # << >>
  /\ \A i \in 1..Len(packets) :
        Len(packets[i]) >= 1 /\ Len(packets[i]) <= handler.maxMessageSize
  /\ packets[1][1] = JERRY_DEBUGGER_EVAL
  /\ \A i \in 2..Len(packets) : packets[i][1] = JERRY_DEBUGGER_EVAL_PART
  /\ Carried(packets) =
       LengthBytes(Len(Payload(expression))) \o Payload(expression)

\* the first packet holds the whole length after its tag
LengthInFirst(packets, expression) ==
  /\ packets # << >>
  /\ Len(packets[1]) >= 5
  /\ SubSeq(packets[1], 2, 5) = LengthBytes(Len(Payload(expression)))

\* C14 as stated: for every expression and every maxMessageSize of at least
\* 2 each packet of evaluate has at most maxMessageSize bytes, the first has
\* tag EVAL followed by the u32 payload length in the session's byte order,
\* the later ones have tag EVAL_PART, and the bytes after the tags are
\* exactly the length followed by the payload.
C14_FirstPacketCarriesLength ==
  [][ (Evaluated /\ handler.maxMessageSize >= 2)
        => /\ PacketsWellFormed(Built, last'.frame)
           /\ LengthInFirst(Built, last'.frame) ]_vars

\* C14: for every expression and every maxMessageSize of at least 2 each
\* packet of evaluate has at most maxMessageSize bytes, the first has tag
\* EVAL, the later ones have tag EVAL_PART, and the bytes after the tags are
\* exactly the u32 payload length in the session's byte order followed by
\* the payload; the first packet holds the whole length when maxMessageSize
\* is at least 5, and its first maxMessageSize - 1 bytes otherwise.
C14_PacketsCarryLengthAndPayload ==
  [][ (Evaluated /\ handler.maxMessageSize >= 2)
        => /\ PacketsWellFormed(Built, last'.frame)
           /\ handler.maxMessageSize >= 5
                => LengthInFirst(Built, last'.frame)
           /\ handler.maxMessageSize < 5
                => Len(Built[1]) = handler.maxMessageSize ]_vars

\* an expression of a one-byte and a three-byte character was cut into
\* packets of 3 bytes in a big-endian session: the first packet holds two
\* bytes of the length
C14_Witness ==
  /\ last.op = "evaluate"
  /\ last.frame = <<97, 8364>>
  /\ handler.maxMessageSize = 3
  /\ ~handler.byteConfig.littleEndian
  /\ Len(sent) = 5
  /\ sent[1].data = <<JERRY_DEBUGGER_EVAL, 0, 0>>
  /\ sent[2].data = <<JERRY_DEBUGGER_EVAL_PART, 0, 5>>
  /\ sent[3].data = <<JERRY_DEBUGGER_EVAL_PART, JERRY_DEBUGGER_EVAL_EVAL, 97>>
  /\ sent[4].data = <<JERRY_DEBUGGER_EVAL_PART, 226, 130>>
  /\ sent[5].data = <<JERRY_DEBUGGER_EVAL_PART, 172>>

----------------------------------------------------------------------------
(* The request queue (SpecQueue) *)

\* the queue: tracked requests of one and of several packets, the frames
\* that answer them, a frame that answers nothing and a frame without handler
QueueFrames ==
  { <<JERRY_DEBUGGER_EVAL_RESULT_END, 98, JERRY_DEBUGGER_EVAL_OK>>,
    <<JERRY_DEBUGGER_BACKTRACE, 42, 0, 10, 0, 0, 0>>,
    <<JERRY_DEBUGGER_BACKTRACE_END>>,
    <<JERRY_DEBUGGER_WAIT_FOR_SOURCE>>,
    <<255>> }

NextQueue ==
  \/ Receive(QueueFrames)
  \/ Evaluate
  \/ EvaluateLong
  \/ RequestBacktrace
  \/ Return

SpecQueue == InitFragments /\ [][NextQueue]_vars

\* the packets of tracked requests
TrackedTags ==
  { JERRY_DEBUGGER_GET_BACKTRACE, JERRY_DEBUGGER_EVAL,
    JERRY_DEBUGGER_EVAL_PART }

\* a tracked request has been accepted by the transport and not answered
InFlight ==
  /\ IsSome(handler.currentRequest)
  /\ Get(handler.currentRequest).state = "pending"

\* the step just taken handed packet i of its sends, a tracked request, to
\* the transport
TrackedSend(i) == i \in 1..Len(sent') /\ sent'[i].data[1] \in TrackedTags

\* C15: tracked requests are handed to the transport one at a time and in
\* issue order: of the tracked requests a step hands over, all but the last
\* have failed; a command issued while a request is current only appends its
\* requests to the queue, and one issued otherwise finds the queue empty; a
\* frame hands over at most the head of the queue, and only when the request
\* in flight before has been completed.
C15_TrackedRequestsInOrder ==
  [][ /\ \A i, j \in 1..Len(sent') :
           (i < j /\ TrackedSend(i) /\ TrackedSend(j)) => ~sent'[i].accepted
      /\ (last'.op \in {"evaluate", "requestBacktrace"}
            /\ last'.outcome # "rejected: state")
          => IF IsSome(handler.currentRequest)
               THEN /\ sent' = << >>
                    /\ Len(handler'.requestQueue) > Len(handler.requestQueue)
                    /\ SubSeq(handler'.requestQueue, 1,
                              Len(handler.requestQueue))
                         = handler.requestQueue
               ELSE handler.requestQueue = << >>
      /\ (last'.op = "onMessage" /\ \E i \in 1..Len(sent') : TrackedSend(i))
          => /\ Len(sent') = 1
             /\ handler.requestQueue # << >>
             /\ sent'[1].data = Head(handler.requestQueue).data
             /\ handler'.requestQueue = Tail(handler.requestQueue)
             /\ InFlight
                  => \E k \in 1..Len(settled') :
                       settled'[k].data = Get(handler.currentRequest).data
    ]_vars

\* requestBacktrace was called while the EVAL packet of evaluate("a") was
\* in flight: its packet was appended to the queue, behind the EVAL_PART
\* packet
C15_Witness ==
  /\ last.op = "requestBacktrace"
  /\ last.outcome = "pending"
  /\ sent = << >>
  /\ InFlight
  /\ Get(handler.currentRequest).data = <<JERRY_DEBUGGER_EVAL, 2, 0, 0, 0, 0>>
  /\ Len(handler.requestQueue) = 2
  /\ handler.requestQueue[1].data = <<JERRY_DEBUGGER_EVAL_PART, 97>>
  /\ handler.requestQueue[2].data =
       <<JERRY_DEBUGGER_GET_BACKTRACE, 0, 0, 0, 0>>

----------------------------------------------------------------------------
(* Progress of the queue (SpecAnswered) *)

\* the frame with which the engine answers a request it has received
AnswerFrame(request) ==
  IF request.data[1] = JERRY_DEBUGGER_GET_BACKTRACE
    THEN <<JERRY_DEBUGGER_BACKTRACE_END>>
    ELSE <<JERRY_DEBUGGER_EVAL_RESULT_END, 98, JERRY_DEBUGGER_EVAL_OK>>

\* the engine answers the request in flight, and sends nothing otherwise
Answer ==
  /\ IsSome(handler.currentRequest)
  /\ Get(handler.currentRequest).state = "pending"
  /\ \E plan \in SendPlans :
       Do("onMessage", AnswerFrame(Get(handler.currentRequest)), 0, FALSE,
          onMessage(Start(plan), AnswerFrame(Get(handler.currentRequest))))

NextAnswered ==
  Answer \/ RequestBacktrace \/ Evaluate \/ UpdateBreakpoint \/ Return

\* the engine answers every request it receives and every call returns; the
\* client is free to issue commands or not
SpecAnswered ==
  /\ InitHalted
  /\ [][NextAnswered]_vars
  /\ WF_vars(Answer)
  /\ WF_vars(Return)

\* requests wait in the queue while no request is in flight
Blocked == handler.requestQueue # << >> /\ ~InFlight

\* C16: a send that returns false fails the request being submitted only:
\* when the engine answers every request it receives, the queue does not
\* stay blocked with nothing in flight, so every request queued is handed to
\* the transport in the end.
C16_QueueNeverStaysBlocked == Blocked ~> ~Blocked

\* the answer to a request took the next request from the queue, the
\* transport refused it, and the request behind it waits in the queue with
\* nothing in flight
C16_Witness ==
  /\ last.op = "onMessage"
  /\ Len(sent) = 1
  /\ ~sent[1].accepted
  /\ Len(settled) = 2
  /\ settled[1].how = "resolve"
  /\ settled[2].how = "reject"
  /\ Blocked
  /\ IsSome(handler.currentRequest)
  /\ Get(handler.currentRequest).state = "resolved"

----------------------------------------------------------------------------
(* Close of the transport (SpecClose) *)

\* the serial port reports 'close': JerryDebuggerSerialClient.onClose calls
\* the delegate's onClose, which is IotjsDebugSession.onClose: it logs and
\* sends a TerminatedEvent to the editor; the protocol handler is not told
Close ==
  /\ ~hung
  /\ last = Idle
  /\ ~closed
  /\ closed' = TRUE
  /\ last' = [Idle EXCEPT !.op = "onClose", !.outcome = "TerminatedEvent"]
  /\ UNCHANGED <<handler, parsedFunctions, breakpoints, delegate, sent, calls,
                 settled, configSeen, fatalReported, hung, serial, applied>>

\* a closed port delivers no frame
Deliver == ~closed /\ Receive(QueueFrames)

NextClose ==
  \/ Deliver
  \/ Evaluate
  \/ RequestBacktrace
  \/ Close
  \/ Return

SpecClose == InitHalted /\ [][NextClose]_vars

\* the requests that have been issued and not completed: the one in flight
\* and the ones in the queue
Outstanding ==
  { Get(handler.currentRequest).data : x \in { y \in {1} : InFlight } }
    \cup { handler.requestQueue[i].data : i \in 1..Len(handler.requestQueue) }

\* C17: when the transport closes, every queued and every in-flight request
\* is completed with a failure, and the commands issued afterwards fail.
C17_CloseFailsEveryRequest ==
  [][ /\ last'.op = "onClose"
          => /\ \A data \in Outstanding :
                  \E k \in 1..Len(settled') :
                    settled'[k].data = data /\ settled'[k].how = "reject"
             /\ handler'.requestQueue = << >>
      /\ (closed /\ last'.op \in {"evaluate", "requestBacktrace"})
          => last'.outcome \in {"rejected: state", "rejected: submit"}
    ]_vars

\* the transport closed while a backtrace request was in flight and an
\* evaluation waited in the queue: both are still pending
C17_Witness ==
  /\ last.op = "onClose"
  /\ closed
  /\ settled = << >>
  /\ InFlight
  /\ Get(handler.currentRequest).owner = "requestBacktrace"
  /\ Len(handler.requestQueue) >= 1
  /\ handler.requestQueue[1].state = "pending"

----------------------------------------------------------------------------
(* BYTE_CODE_CP without a parser stack frame (SpecBreakpoints) *)

\* a BYTE_CODE_CP frame reaches its handler in a configured session while no
\* evaluation is pending and the parser stack is empty
ByteCodeCPWithoutFrame ==
  /\ Delivered({JERRY_DEBUGGER_BYTE_CODE_CP})
  /\ handler.byteConfig.cpointerSize # 0
  /\ handler.evalsPending = 0
  /\ handler.stack = << >>

TablesUnchanged ==
  /\ handler'.functions = handler.functions
  /\ handler'.newFunctions = handler.newFunctions
  /\ handler'.lineLists = handler.lineLists
  /\ handler'.nextScriptID = handler.nextScriptID

\* C18 as stated: with no evaluation pending and an empty parser stack, a
\* BYTE_CODE_CP frame is reported through on_error(0, ...) and leaves
\* functions, new_functions, the line lists and next_script_id unchanged.
C18_ByteCodeCPWithoutFrameReported ==
  [][ ByteCodeCPWithoutFrame
        => /\ \E i \in 1..Len(calls') : calls'[i].cb = "onError" /\ calls'[i].n = 0
           /\ TablesUnchanged
    ]_vars

\* C18 (amended): with no evaluation pending and an empty parser stack, a
\* BYTE_CODE_CP frame makes the handler throw: the exception leaves
\* onMessage, on_error is not invoked, nothing is sent, no request is
\* settled, and functions, new_functions, the line lists, next_script_id and
\* every other field are unchanged.
C18_ByteCodeCPWithoutFrameThrows ==
  [][ ByteCodeCPWithoutFrame
        => /\ last'.threw
           /\ last'.aborts = 0
           /\ calls' = << >>
           /\ sent' = << >>
           /\ settled' = << >>
           /\ TablesUnchanged
           /\ ObjectsUnchanged
    ]_vars

\* a second BYTE_CODE_CP frame arrived after the one that promoted function
\* 42: the handler threw and the function table still holds the function
C18_Witness ==
  /\ last.op = "onMessage"
  /\ last.frame = <<JERRY_DEBUGGER_BYTE_CODE_CP, 42, 0>>
  /\ last.threw
  /\ last.aborts = 0
  /\ calls = << >>
  /\ handler.stack = << >>
  /\ handler.evalsPending = 0
  /\ 42 \in DOMAIN handler.functions
  /\ handler.nextScriptID = 2

----------------------------------------------------------------------------
(* Release of functions (SpecRelease) *)

\* a configured session in the middle of parsing a script: the nested
\* function 43, with a breakpoint on line 5, is staged in newFunctions and
\* the frame of the script is on the parser stack
StagedPrefix ==
  << GoodConfiguration,
     <<JERRY_DEBUGGER_SOURCE_CODE_END, 97>>,
     <<JERRY_DEBUGGER_PARSE_FUNCTION, 2, 0, 0, 0, 1, 0, 0, 0>>,
     <<JERRY_DEBUGGER_BREAKPOINT_LIST, 5, 0, 0, 0>>,
     <<JERRY_DEBUGGER_BREAKPOINT_OFFSET_LIST, 10, 0, 0, 0>>,
     <<JERRY_DEBUGGER_BYTE_CODE_CP, 43, 0>> >>

InitStaged == After(Replay(Fresh, StagedPrefix))

\* the rest of the script (breakpoints on lines 5 and 7, function 42), a
\* halt in it, the answer to an evaluation, and releases of function 42, of
\* function 43 and of a function the handler has never been told about
ReleaseFrames ==
  { <<JERRY_DEBUGGER_BREAKPOINT_LIST, 5, 0, 0, 0, 7, 0, 0, 0>>,
    <<JERRY_DEBUGGER_BREAKPOINT_OFFSET_LIST, 20, 0, 0, 0, 30, 0, 0, 0>>,
    <<JERRY_DEBUGGER_BYTE_CODE_CP, 42, 0>>,
    <<JERRY_DEBUGGER_BREAKPOINT_HIT, 42, 0, 20, 0, 0, 0>>,
    <<JERRY_DEBUGGER_EVAL_RESULT_END, 98, JERRY_DEBUGGER_EVAL_OK>>,
    <<JERRY_DEBUGGER_RELEASE_BYTE_CODE_CP, 42, 0>>,
    <<JERRY_DEBUGGER_RELEASE_BYTE_CODE_CP, 43, 0>>,
    <<JERRY_DEBUGGER_RELEASE_BYTE_CODE_CP, 44, 0>> }

NextRelease ==
  \/ Receive(ReleaseFrames)
  \/ UpdateBreakpoint
  \/ Evaluate
  \/ Return

SpecRelease == InitStaged /\ [][NextRelease]_vars

\* the pointer of the RELEASE_BYTE_CODE_CP frame being delivered
ReleasedCP == getUint16(handler.byteConfig.littleEndian, last'.frame, 1)

\* C19: every RELEASE_BYTE_CODE_CP frame received, whatever evals_pending
\* is and whether its pointer names a promoted function, a staged function
\* or no known function, causes exactly one FREE_BYTE_CODE_CP frame with the
\* same pointer bytes to be handed to the transport.
C19_ReleaseAlwaysAcknowledged ==
  [][ Delivered({JERRY_DEBUGGER_RELEASE_BYTE_CODE_CP})
        => /\ Len(sent') = 1
           /\ sent'[1].data =
                <<JERRY_DEBUGGER_FREE_BYTE_CODE_CP>> \o Tail(last'.frame)
    ]_vars

\* function 42 has been promoted and released, function 43 is still in the
\* table, and the release of the unknown function 44 made the handler throw
\* before anything was handed to the transport
C19_Witness ==
  /\ last.op = "onMessage"
  /\ last.frame = <<JERRY_DEBUGGER_RELEASE_BYTE_CODE_CP, 44, 0>>
  /\ handler.evalsPending = 0
  /\ DOMAIN handler.functions = {43}
  /\ handler.newFunctions = EmptyMap
  /\ last.threw
  /\ sent = << >>

\* array without its element at index j
Without(array, j) ==
  [k \in 1..(Len(array) - 1) |-> IF k < j THEN array[k] ELSE array[k + 1]]

\* the frame being delivered makes releaseFunction run for function f of the
\* function table
Releases(f) ==
  /\ Delivered({JERRY_DEBUGGER_RELEASE_BYTE_CODE_CP})
  /\ handler.byteConfig.cpointerSize # 0
  /\ handler.evalsPending = 0
  /\ ReleasedCP \notin DOMAIN handler.newFunctions
  /\ ReleasedCP \in DOMAIN handler.functions
  /\ f = handler.functions[ReleasedCP]

\* the slots named by the line breakpoints of f
LineSlots(f) ==
  { i \in { breakpoints[parsedFunctions[f].lines[l]].activeIndex :
              l \in DOMAIN parsedFunctions[f].lines } : i >= 0 }

\* cell l of the line list of script t after the release of f
CellReleased(f, t, l) ==
  IF t = parsedFunctions[f].scriptId /\ l \in DOMAIN parsedFunctions[f].lines
    THEN \E j \in 1..Len(handler.lineLists[t][l]) :
           /\ handler.lineLists[t][l][j] = f
           /\ handler'.lineLists[t][l] = Without(handler.lineLists[t][l], j)
    ELSE handler'.lineLists[t][l] = handler.lineLists[t][l]

\* C20: releaseFunction(cp) for a function f of the function table removes
\* exactly one occurrence of f from the cell of every line of f in the line
\* list of f's script, leaving the other functions of those cells in their
\* order (and every other cell as it was); empties the slots of
\* activeBreakpoints named by the line breakpoints of f that are active and
\* changes no other slot; and deletes functions[cp].
C20_ReleaseFunctionEffect ==
  [][ \A f \in 1..Len(parsedFunctions) :
        Releases(f)
          => /\ DOMAIN handler'.lineLists = DOMAIN handler.lineLists
             /\ \A t \in DOMAIN handler.lineLists :
                  /\ DOMAIN handler'.lineLists[t] = DOMAIN handler.lineLists[t]
                  /\ \A l \in DOMAIN handler.lineLists[t] :
                       CellReleased(f, t, l)
             /\ handler'.activeBreakpoints =
                  [i \in DOMAIN handler.activeBreakpoints \ LineSlots(f)
                     |-> handler.activeBreakpoints[i]]
             /\ handler'.functions =
                  [cp \in DOMAIN handler.functions \ {ReleasedCP}
                     |-> handler.functions[cp]]
             /\ ~last'.threw
    ]_vars

\* functions 43 and 42 shared the cell of line 5 and each had its
\* breakpoint on that line enabled; function 42 has been released: the cell
\* holds function 43 alone, the cell of line 7 is empty, the slot of
\* function 42's breakpoint is empty and the one of function 43's is not
C20_Witness ==
  /\ last.op = "onMessage"
  /\ last.frame = <<JERRY_DEBUGGER_RELEASE_BYTE_CODE_CP, 42, 0>>
  /\ ~last.threw
  /\ DOMAIN handler.functions = {43}
  /\ DOMAIN handler.lineLists[1] = {5, 7}
  /\ handler.lineLists[1][5] = <<handler.functions[43]>>
  /\ handler.lineLists[1][7] = << >>
  /\ Cardinality(DOMAIN handler.activeBreakpoints) = 1
  /\ handler.nextBreakpointIndex = 2
  /\ \E i \in DOMAIN handler.activeBreakpoints :
       breakpoints[handler.activeBreakpoints[i]].func = handler.functions[43]

----------------------------------------------------------------------------
(* Halts (SpecHits) *)

\* a configured session that has received the source of its script: the
\* frame of the script is on the parser stack
InitParsing ==
  After(Replay(Fresh, << GoodConfiguration,
                         <<JERRY_DEBUGGER_SOURCE_CODE_END, 97>> >>))

\* the breakpoints of function 42 on lines 5 and 7, with offsets in
\* ascending or in descending order; halts and exceptions reported below,
\* at, between and above the stored offsets; a backtrace of one frame; the
\* text of an exception
HitFrames ==
  { <<JERRY_DEBUGGER_BREAKPOINT_LIST, 5, 0, 0, 0, 7, 0, 0, 0>>,
    <<JERRY_DEBUGGER_BREAKPOINT_OFFSET_LIST, 10, 0, 0, 0, 20, 0, 0, 0>>,
    <<JERRY_DEBUGGER_BREAKPOINT_OFFSET_LIST, 20, 0, 0, 0, 10, 0, 0, 0>>,
    <<JERRY_DEBUGGER_BYTE_CODE_CP, 42, 0>>,
    <<JERRY_DEBUGGER_BREAKPOINT_HIT, 42, 0, 5, 0, 0, 0>>,
    <<JERRY_DEBUGGER_BREAKPOINT_HIT, 42, 0, 10, 0, 0, 0>>,
    <<JERRY_DEBUGGER_BREAKPOINT_HIT, 42, 0, 15, 0, 0, 0>>,
    <<JERRY_DEBUGGER_BREAKPOINT_HIT, 42, 0, 25, 0, 0, 0>>,
    <<JERRY_DEBUGGER_EXCEPTION_HIT, 42, 0, 15, 0, 0, 0>>,
    <<JERRY_DEBUGGER_BACKTRACE_END, 42, 0, 15, 0, 0, 0>>,
    <<JERRY_DEBUGGER_EXCEPTION_STR_END, 120>> }

NextHits ==
  \/ Receive(HitFrames)
  \/ Pause
  \/ StepOver
  \/ StepInto
  \/ StepOut
  \/ Resume
  \/ UpdateBreakpoint
  \/ Return

SpecHits == InitParsing /\ [][NextHits]_vars

HitTags == { JERRY_DEBUGGER_BREAKPOINT_HIT, JERRY_DEBUGGER_EXCEPTION_HIT }

\* the function and the offset reported by the frame being delivered
ReportedCP == getUint16(handler.byteConfig.littleEndian, last'.frame, 1)
ReportedOffset == getUint32(handler.byteConfig.littleEndian, last'.frame, 3)

\* the offsets under which function f stores a breakpoint
StoredOffsets(f) ==
  { breakpoints[b].offset[1] :
      b \in { c \in BreakpointsOf(f) : IsSome(breakpoints[c].offset) } }

\* the frame being delivered reports a position in function f, a function
\* of the table with at least one breakpoint (a line paired with an offset)
Reports(f, tags) ==
  /\ Delivered(tags)
  /\ ReportedCP \in DOMAIN handler.functions
  /\ f = handler.functions[ReportedCP]
  /\ StoredOffsets(f) # {}

\* breakpoint b of function f and the mark exact are the resolution of
\* offset o
Resolves(f, o, b, exact) ==
  /\ b \in BreakpointsOf(f)
  /\ breakpoints[b].func = f
  /\ IF o \in StoredOffsets(f)
       THEN breakpoints[b].offset = Some(o) /\ exact
     ELSE IF o < Get(parsedFunctions[f].firstBreakpointOffset)
       THEN /\ breakpoints[b].offset = parsedFunctions[f].firstBreakpointOffset
            /\ exact
     ELSE /\ IsSome(breakpoints[b].offset)
          /\ Get(breakpoints[b].offset) <= o
          /\ \A p \in StoredOffsets(f) :
               p <= o => p <= Get(breakpoints[b].offset)
          /\ ~exact

ResumeCode ==
  [ op \in {"stepOver", "stepInto", "stepOut", "resume"} |->
      IF op = "stepOver" THEN JERRY_DEBUGGER_NEXT
      ELSE IF op = "stepInto" THEN JERRY_DEBUGGER_STEP
      ELSE IF op = "stepOut" THEN JERRY_DEBUGGER_FINISH
      ELSE JERRY_DEBUGGER_CONTINUE ]

\* C22: stepOver, stepInto, stepOut and resume hand their one-byte command
\* to the transport only when lastBreakpointHit is set, and they clear it;
\* lastBreakpointHit is set again only by a BREAKPOINT_HIT or EXCEPTION_HIT
\* frame, so such a frame is processed between any two of these commands
\* handed to the transport.
C22_ResumeOnlyWhenHalted ==
  [][ /\ last'.op \in DOMAIN ResumeCode
          => IF IsSome(handler.lastBreakpointHit)
               THEN /\ Len(sent') = 1
                    /\ sent'[1].data = <<ResumeCode[last'.op]>>
                    /\ ~IsSome(handler'.lastBreakpointHit)
               ELSE sent' = << >> /\ ~IsSome(handler'.lastBreakpointHit)
      /\ (~IsSome(handler.lastBreakpointHit)
            /\ IsSome(handler'.lastBreakpointHit))
          => Delivered(HitTags)
    ]_vars

\* stepOut was called while the program was halted: its byte has been
\* handed to the transport and the program is no longer known to be halted
C22_Witness ==
  /\ last.op = "stepOut"
  /\ Len(sent) = 1
  /\ sent[1].data = <<JERRY_DEBUGGER_FINISH>>
  /\ sent[1].accepted
  /\ ~IsSome(handler.lastBreakpointHit)
  /\ handler.lastStopType = Some(JERRY_DEBUGGER_FINISH)

----------------------------------------------------------------------------
(* Client sources (SpecFragments) *)

\* C23: sendClientSource is accepted only when waitForSourceEnabled is true
\* and sets it to false, and only a WAIT_FOR_SOURCE frame sets it to true
\* again: between two consecutive WAIT_FOR_SOURCE frames at most one
\* sendClientSource command is accepted.
C23_OneSourcePerWaitForSource ==
  [][ /\ last'.op = "sendClientSource"
          => /\ ~handler'.waitForSourceEnabled
             /\ IF handler.waitForSourceEnabled
                  THEN /\ last'.outcome # "rejected: state"
                       /\ sent' # << >>
                       /\ sent'[1].data[1] = JERRY_DEBUGGER_CLIENT_SOURCE
                  ELSE last'.outcome = "rejected: state" /\ sent' = << >>
      /\ (~handler.waitForSourceEnabled /\ handler'.waitForSourceEnabled)
          => Delivered({JERRY_DEBUGGER_WAIT_FOR_SOURCE})
    ]_vars

\* the engine asked for a source and sendClientSource was called: the name
\* and the source went out in two packets and a further call would be
\* rejected
C23_Witness ==
  /\ last.op = "sendClientSource"
  /\ last.outcome = "resolved"
  /\ Len(sent) = 2
  /\ sent[1].data[1] = JERRY_DEBUGGER_CLIENT_SOURCE
  /\ sent[2].data[1] = JERRY_DEBUGGER_CLIENT_SOURCE_PART
  /\ ~handler.waitForSourceEnabled

----------------------------------------------------------------------------
(* Stop labels (SpecHits) *)

\* the commands that set lastStopType and the value each of them sets
StopCode ==
  [ op \in DOMAIN ResumeCode \cup {"pause"} |->
      IF op = "pause" THEN JERRY_DEBUGGER_STOP ELSE ResumeCode[op] ]

\* C24: lastStopType is cleared after every BREAKPOINT_HIT and every
\* EXCEPTION_HIT frame and is set only by a resume or pause command, to the
\* code of that command; so the label given to on_breakpoint_hit names the
\* command issued since the previous hit frame and is "entry" when there was
\* none, and it carries the prefix "inactive " exactly when the activeIndex
\* of the breakpoint is -1.
C24_StopLabelNamesLastCommand ==
  [][ /\ (Delivered(HitTags) /\ ~last'.threw)
          => ~IsSome(handler'.lastStopType)
      /\ handler'.lastStopType # handler.lastStopType
          => \/ Delivered(HitTags)
             \/ /\ last'.op \in DOMAIN StopCode
                /\ handler'.lastStopType = Some(StopCode[last'.op])
      /\ \A i \in 1..Len(calls') :
           calls'[i].cb = "onBreakpointHit"
             => /\ calls'[i].label = stopTypeText(handler.lastStopType)
                /\ (calls'[i].k = 1)
                     <=> (breakpoints[calls'[i].n].activeIndex = -1)
    ]_vars

\* the program was resumed and an EXCEPTION_HIT frame has been reported to
\* on_exception_hit: lastStopType still holds the code of resume
C24_Witness ==
  /\ last.op = "onMessage"
  /\ last.frame[1] = JERRY_DEBUGGER_EXCEPTION_HIT
  /\ ~last.threw
  /\ Len(calls) = 1
  /\ calls[1].cb = "onExceptionHit"
  /\ IsSome(handler.lastBreakpointHit)
  /\ handler.lastStopType = Some(JERRY_DEBUGGER_CONTINUE)

----------------------------------------------------------------------------
(* Scripts (SpecScripts) *)

\* a session just configured
InitConfigured == After(Replay(Fresh, << GoodConfiguration >>))

\* sources in one and in several frames, with and without a name, a source
\* with a character of two bytes, and the frame that ends the parse of a
\* script
ScriptFrames ==
  { <<JERRY_DEBUGGER_SOURCE_CODE, 97>>,
    <<JERRY_DEBUGGER_SOURCE_CODE_END, 195, 169>>,
    <<JERRY_DEBUGGER_SOURCE_CODE_END>>,
    <<JERRY_DEBUGGER_SOURCE_CODE_NAME_END, 103>>,
    <<JERRY_DEBUGGER_BYTE_CODE_CP, 42, 0>> }

NextScripts == Receive(ScriptFrames) \/ Return

SpecScripts == InitConfigured /\ [][NextScripts]_vars

\* the scripts that on_script_parsed has reported
Reported ==
  { k \in DOMAIN handler.sources : IsSome(handler.sources[k].source) }

\* the step reports script k to on_script_parsed
ReportsScript(k) ==
  \E i \in 1..Len(calls') :
    calls'[i].cb = "onScriptParsed" /\ calls'[i].n = k

\* C25: once on_script_parsed has reported script id k, the stored name and
\* source of script k never change and no later on_script_parsed reports
\* the id k again.
C25_ReportedScriptNeverChanges ==
  [][ \A k \in Reported :
        /\ k \in DOMAIN handler'.sources
        /\ handler'.sources[k] = handler.sources[k]
        /\ ~ReportsScript(k)
    ]_vars

\* a SOURCE_CODE_END frame has been reported as script 1 and the parse of
\* the script is not finished: nextScriptID is still 1, and the next
\* SOURCE_CODE_END frame is reported under the same id
C25_Witness ==
  /\ last.op = "onMessage"
  /\ last.frame = <<JERRY_DEBUGGER_SOURCE_CODE_END, 195, 169>>
  /\ handler.nextScriptID = 1
  /\ Len(calls) = 1
  /\ calls[1].cb = "onScriptParsed"
  /\ calls[1].n = 1
  /\ handler.sources[1].source = Some(<<233>>)
  /\ Len(handler.stack) = 1
  /\ handler.stack[1].scriptId = 1

\* getSource(scriptId)
getSource(h, scriptId) ==
  IF scriptId < ArrayLength(h.sources) /\ scriptId \in DOMAIN h.sources
       /\ IsSome(h.sources[scriptId].source)
    THEN Get(h.sources[scriptId].source)
    ELSE << >>

\* the payloads of the SOURCE_CODE frames received since the last
\* SOURCE_CODE_END frame, concatenated
Buffered == IF IsSome(handler.sourceData) THEN Get(handler.sourceData) ELSE << >>

\* C26: with evalsPending = 0, every SOURCE_CODE_END frame triggers exactly
\* one on_script_parsed with id nextScriptID and the completed source name
\* (empty if none), and makes getSource(id) the decoding of the payloads of
\* the SOURCE_CODE frames since the previous SOURCE_CODE_END followed by
\* the payload of the END frame; a SOURCE_CODE frame only appends its
\* payload to the buffer and triggers no callback; the buffer is empty after
\* the END frame and no other frame touches it.
C26_SourceAssembledAndReported ==
  [][ /\ (Delivered({JERRY_DEBUGGER_SOURCE_CODE_END})
            /\ handler.evalsPending = 0)
          => /\ Len(calls') = 1
             /\ calls'[1].cb = "onScriptParsed"
             /\ calls'[1].n = handler.nextScriptID
             /\ calls'[1].s = IF IsSome(handler.sourceName)
                                THEN Get(handler.sourceName) ELSE << >>
             /\ getSource(handler', handler.nextScriptID)
                  = cesu8Decode(Buffered \o Tail(last'.frame))
             /\ ~IsSome(handler'.sourceData)
      /\ (Delivered({JERRY_DEBUGGER_SOURCE_CODE}) /\ handler.evalsPending = 0)
          => /\ calls' = << >>
             /\ handler'.sourceData = Some(Buffered \o Tail(last'.frame))
             /\ handler'.sources = handler.sources
      /\ handler'.sourceData # handler.sourceData
          => Delivered({JERRY_DEBUGGER_SOURCE_CODE,
                        JERRY_DEBUGGER_SOURCE_CODE_END})
      /\ handler'.sourceName # handler.sourceName
          => Delivered({JERRY_DEBUGGER_SOURCE_CODE_NAME_END,
                        JERRY_DEBUGGER_BYTE_CODE_CP})
    ]_vars

\* two SOURCE_CODE frames with "a" and the SOURCE_CODE_END frame with the
\* two bytes of e-acute have been received after the name "g": script 1 is
\* reported with that name and its source is "aa" followed by e-acute
C26_Witness ==
  /\ last.op = "onMessage"
  /\ last.frame = <<JERRY_DEBUGGER_SOURCE_CODE_END, 195, 169>>
  /\ Len(calls) = 1
  /\ calls[1].cb = "onScriptParsed"
  /\ calls[1].n = 1
  /\ calls[1].s = <<103>>
  /\ getSource(handler, 1) = <<97, 97, 233>>
  /\ ~IsSome(handler.sourceData)

----------------------------------------------------------------------------
(* Lookup of breakpoints (SpecFind) *)

\* the facade asks for the breakpoint of a line: the call returns it or
\* throws, and changes nothing
findBreakpointCall(m, scriptId, line) ==
  IF IsSome(findBreakpoint(m.h, m.pf, scriptId, line))
    THEN Outcome(m, "returned")
    ELSE Throw(Outcome(m, "threw"))

\* script ids below, in and above the range, lines with and without
\* breakpoints
QueryScripts == 0..(MaxScripts + 1)
QueryLines == {5, 6, 7}

FindBreakpoint ==
  \E scriptId \in QueryScripts, line \in QueryLines :
    Do("findBreakpoint", <<line>>, scriptId, FALSE,
       findBreakpointCall(Start([i \in 1..MaxSends |-> TRUE]), scriptId, line))

\* the rest of the script whose function 43 is staged, and releases
FindFrames ==
  { <<JERRY_DEBUGGER_BREAKPOINT_LIST, 5, 0, 0, 0, 7, 0, 0, 0>>,
    <<JERRY_DEBUGGER_BREAKPOINT_OFFSET_LIST, 20, 0, 0, 0, 30, 0, 0, 0>>,
    <<JERRY_DEBUGGER_BYTE_CODE_CP, 42, 0>>,
    <<JERRY_DEBUGGER_RELEASE_BYTE_CODE_CP, 42, 0>>,
    <<JERRY_DEBUGGER_RELEASE_BYTE_CODE_CP, 43, 0>> }

NextFind == Receive(FindFrames) \/ FindBreakpoint \/ Return

SpecFind == InitStaged /\ [][NextFind]_vars

\* the functions of script s, of the function table or the line lists, that
\* have a breakpoint on line l
FunctionsOn(s, l) ==
  { f \in TableFunctions :
      parsedFunctions[f].scriptId = s /\ l \in DOMAIN parsedFunctions[f].lines }

----------------------------------------------------------------------------
(* Framing of the serial line (SpecSerial) *)

MaxStream == 5
MaxThrowAt == 2

\* length bytes 0, 1 and 2, which are payload bytes as well
StreamBytes == {0, 1, 2}

Streams == UNION { [1..n -> StreamBytes] : n \in 0..MaxStream }

\* the variables of the protocol handler, which the steps of the serial
\* client and of the JerryUtils functions leave alone
handlerVars == <<handler, parsedFunctions, breakpoints, delegate, sent, calls,
                 settled, last, configSeen, fatalReported, hung, closed>>

\* a handler just constructed, waiting
InitIdle ==
  /\ handler = InitHandler
  /\ parsedFunctions = << >>
  /\ breakpoints = << >>
  /\ delegate = AllCallbacks
  /\ sent = << >>
  /\ calls = << >>
  /\ settled = << >>
  /\ last = Idle
  /\ configSeen = FALSE
  /\ fatalReported = FALSE
  /\ hung = FALSE
  /\ closed = FALSE

\* a connected serial client in front of a fresh handler, for every stream
InitSerial ==
  /\ InitIdle
  /\ serial \in { SerialClient(stream) : stream \in Streams }
  /\ applied = NoCall

\* the port emits 'data' with the next n bytes of the stream, cut anywhere;
\* the listener is (data) => this.onMessage(data), and an exception of the
\* delegate leaves it uncaught: the adapter process (DebugSession.run) has
\* no handler for it and ends, so no further 'data' event is served
SerialData ==
  /\ ~serial.crashed
  /\ \E n \in 1..(Len(serial.stream) - serial.arrived), throwAt \in 0..MaxThrowAt :
       serial' = [serialOnMessage(
                    serial,
                    SubSeq(serial.stream, serial.arrived + 1, serial.arrived + n),
                    throwAt)
                  EXCEPT !.arrived = @ + n, !.events = @ + 1]
  /\ UNCHANGED <<handlerVars, applied>>

NextSerial == SerialData

SpecSerial == InitSerial /\ [][NextSerial]_vars

\* the bytes that have reached the client
Arrived == SubSeq(serial.stream, 1, serial.arrived)

\* the bytes of a list of frames on the line: each frame after its length byte
RECURSIVE Framed(_)
Framed(frames) ==
  IF frames = << >> THEN << >>
  ELSE << Len(Head(frames)) >> \o Head(frames) \o Framed(Tail(frames))

IsPrefix(a, b) == Len(a) <= Len(b) /\ a = SubSeq(b, 1, Len(a))

\* C28: however the byte stream is cut into 'data' events, the frames given
\* to the delegate are, in order, the payloads of the length-prefixed frames
\* of the bytes arrived (a frame is given only when its length byte and all
\* its bytes have arrived, and none is given twice); as long as the delegate
\* has returned from every call, the frames given and the bytes still
\* buffered are together exactly the bytes arrived, the buffer holds no
\* complete frame, and the frames given are those one single 'data' event
\* with all the bytes arrived would have given
C28_SerialFraming ==
  /\ IsPrefix(Framed(serial.delivered), Arrived)
  /\ ~serial.crashed =>
       /\ Framed(serial.delivered) \o serial.buffer = Arrived
       /\ (serial.buffer = << >> \/ Len(serial.buffer) < serial.buffer[1] + 1)
       /\ serial.delivered =
            serialOnMessage(SerialClient(<< >>), Arrived, 0).delivered

\* two frames, one of two bytes, have been given after three 'data' events
\* of a five-byte stream: a frame was cut by an event boundary
C28_Witness ==
  /\ serial.stream = <<2, 1, 0, 1, 2>>
  /\ serial.arrived = 5
  /\ serial.events = 3
  /\ ~serial.crashed
  /\ serial.delivered = << <<1, 0>>, <<2>> >>
  /\ serial.buffer = << >>

----------------------------------------------------------------------------
(* Round trip of encodeMessage and decodeMessage (SpecCodec) *)

MaxFormat == 2

ByteConfigs ==
  { [cpointerSize |-> size, littleEndian |-> little] :
      size \in {2, 4}, little \in BOOLEAN }

Formats == UNION { [1..n -> {"B", "I", "C"}] : n \in 0..MaxFormat }

\* values at and next to the limits of the one-, two- and four-byte fields
\* (the largest is the largest integer of the model checker), and undefined
FieldValues ==
  { None, Some(-1), Some(0), Some(255), Some(256), Some(65535), Some(65536),
    Some(2147483647) }

ValueLists == UNION { [1..n -> FieldValues] : n \in 0..MaxFormat }

\* every byte configuration, format and value list, well formed or not
InitCodec ==
  /\ InitIdle
  /\ serial = SerialClient(<< >>)
  /\ applied \in { [op |-> "", config |-> config, format |-> format,
                    values |-> values] :
                     config \in ByteConfigs, format \in Formats,
                     values \in ValueLists }

\* encodeMessage(config, format, values)
EncodeMessage ==
  /\ applied.op = ""
  /\ applied' = [op |-> "encodeMessage", config |-> applied.config,
                 format |-> applied.format, values |-> applied.values,
                 encoded |-> encodeMessage(applied.config, applied.format,
                                           applied.values)]
  /\ UNCHANGED <<handlerVars, serial>>

\* decodeMessage(config, format, message) of the bytes encodeMessage returned
DecodeMessage ==
  /\ applied.op = "encodeMessage"
  /\ applied.encoded.ok
  /\ applied' = [op |-> "decodeMessage", config |-> applied.config,
                 format |-> applied.format, values |-> applied.values,
                 encoded |-> applied.encoded,
                 decoded |-> decodeMessage(applied.config, applied.format,
                                           applied.encoded.bytes, 0)]
  /\ UNCHANGED <<handlerVars, serial>>

NextCodec == EncodeMessage \/ DecodeMessage

SpecCodec == InitCodec /\ [][NextCodec]_vars

\* width in bytes of the field of a format character, as the grammar gives it
FieldWidth(config, c) ==
  IF c = "B" THEN 1 ELSE IF c = "I" THEN 4 ELSE config.cpointerSize

\* an unsigned integer that fits width bytes
Fits(v, width) ==
  /\ v >= 0
  /\ IF width = 1 THEN v <= 255
     ELSE IF width = 2 THEN v <= 65535
     ELSE v \div 65536 <= 65535

\* as many values as format characters, each an unsigned integer in the
\* range of its field
WellFormed ==
  /\ Len(applied.values) = Len(applied.format)
  /\ \A i \in 1..Len(applied.format) :
       /\ IsSome(applied.values[i])
       /\ Fits(Get(applied.values[i]),
               FieldWidth(applied.config, applied.format[i]))

RECURSIVE TotalWidth(_, _)
TotalWidth(config, format) ==
  IF format = << >> THEN 0
  ELSE FieldWidth(config, Head(format)) + TotalWidth(config, Tail(format))

\* C29: for pointer sizes 2 and 4, both byte orders, every format over B, I
\* and C and every list of as many in-range unsigned integers, encodeMessage
\* returns as many bytes as the fields of the format take, which is what
\* getFormatSize returns, and decodeMessage of those bytes returns the values
C29_EncodeDecodeRoundTrip ==
  (applied.op \in {"encodeMessage", "decodeMessage"} /\ WellFormed) =>
    /\ applied.encoded.ok
    /\ Len(applied.encoded.bytes) = TotalWidth(applied.config, applied.format)
    /\ getFormatSize(applied.config, applied.format)
         = TotalWidth(applied.config, applied.format)
    /\ applied.op = "decodeMessage" =>
         /\ applied.decoded.ok
         /\ applied.decoded.vals
              = [i \in 1..Len(applied.values) |-> Get(applied.values[i])]

\* a two-byte big-endian pointer and a four-byte integer came back
C29_Witness ==
  /\ applied.op = "decodeMessage"
  /\ applied.config = [cpointerSize |-> 2, littleEndian |-> FALSE]
  /\ applied.format = <<"C", "I">>
  /\ applied.values = <<Some(256), Some(65536)>>
  /\ applied.encoded.bytes = <<1, 0, 0, 1, 0, 0>>
  /\ applied.decoded.vals = <<256, 65536>>

----------------------------------------------------------------------------
(* Round trip of stringToCesu8 and cesu8ToString (SpecText) *)

MaxString == 3

\* UTF-16 code units: NUL and 'a', the ends of the two-byte and three-byte
\* ranges, and the surrogate pair D83D DE02 of the code point U+1F602
CodeUnits == {0, 97, 128, 2047, 2048, 65535, 55357, 56834}

Strings == UNION { [1..n -> CodeUnits] : n \in 0..MaxString }

InitText ==
  /\ InitIdle
  /\ serial = SerialClient(<< >>)
  /\ applied \in { [op |-> "", str |-> str] : str \in Strings }

\* stringToCesu8(str, 0, byteConfig): no byte reserved in front
StringToCesu8 ==
  /\ applied.op = ""
  /\ applied' = [op |-> "stringToCesu8", str |-> applied.str,
                 bytes |-> stringToCesu8(applied.str, 0)]
  /\ UNCHANGED <<handlerVars, serial>>

\* cesu8ToString of the bytes stringToCesu8 returned
Cesu8ToString ==
  /\ applied.op = "stringToCesu8"
  /\ applied' = [op |-> "cesu8ToString", str |-> applied.str,
                 bytes |-> applied.bytes,
                 text |-> cesu8ToString(Some(applied.bytes))]
  /\ UNCHANGED <<handlerVars, serial>>

NextText == StringToCesu8 \/ Cesu8ToString

SpecText == InitText /\ [][NextText]_vars

\* number of bytes CESU-8 gives a code unit
UnitWidth(u) == IF u < 128 THEN 1 ELSE IF u < 2048 THEN 2 ELSE 3

\* number of bytes in front of the encoding of the i-th code unit
RECURSIVE ByteOffset(_, _)
ByteOffset(str, i) ==
  IF i <= 1 THEN 0 ELSE ByteOffset(str, i - 1) + UnitWidth(str[i - 1])

\* the three-byte sequence of a surrogate code unit
SurrogateBytes(u) ==
  <<237, 128 + ((u \div 64) % 64), 128 + (u % 64)>>

IsHighSurrogate(u) == u >= 55296 /\ u <= 56319
IsLowSurrogate(u) == u >= 56320 /\ u <= 57343

\* C30: the encoding of a string has no lead byte of a four-byte sequence
\* and gives every supplementary code point (a high surrogate followed by a
\* low surrogate) two three-byte sequences, one per surrogate; decoding the
\* encoding of a string gives the string back
C30_Cesu8RoundTrip ==
  applied.op \in {"stringToCesu8", "cesu8ToString"} =>
    /\ \A k \in 1..Len(applied.bytes) : applied.bytes[k] < 240
    /\ \A i \in 1..(Len(applied.str) - 1) :
         (IsHighSurrogate(applied.str[i]) /\ IsLowSurrogate(applied.str[i + 1])) =>
           /\ Len(applied.bytes) >= ByteOffset(applied.str, i) + 6
           /\ SubSeq(applied.bytes, ByteOffset(applied.str, i) + 1,
                     ByteOffset(applied.str, i) + 6)
                = SurrogateBytes(applied.str[i])
                    \o SurrogateBytes(applied.str[i + 1])
    /\ applied.op = "cesu8ToString" => applied.text = applied.str

\* U+1F602 between two letters went through six bytes and came back
C30_Witness ==
  /\ applied.op = "cesu8ToString"
  /\ applied.str = <<97, 55357, 56834>>
  /\ applied.bytes = <<97, 237, 160, 189, 237, 184, 130>>
  /\ applied.text = <<97, 55357, 56834>>

----------------------------------------------------------------------------
(* The handler's fields while a callback runs (SpecCallbacks) *)

\* a halted session receiving every frame that ends in a callback of the
\* execution family, with evaluations and resumes in between
CallbackFrames ==
  { <<JERRY_DEBUGGER_BREAKPOINT_HIT, 42, 0, 10, 0, 0, 0>>,
    <<JERRY_DEBUGGER_EXCEPTION_HIT, 42, 0, 10, 0, 0, 0>>,
    <<JERRY_DEBUGGER_EXCEPTION_STR_END, 120>>,
    <<JERRY_DEBUGGER_BACKTRACE, 42, 0, 10, 0, 0, 0>>,
    <<JERRY_DEBUGGER_BACKTRACE_END, 42, 0, 20, 0, 0, 0>>,
    <<JERRY_DEBUGGER_EVAL_RESULT, 97>>,
    <<JERRY_DEBUGGER_EVAL_RESULT_END, 98, JERRY_DEBUGGER_EVAL_OK>> }

NextCallbacks == Receive(CallbackFrames) \/ Evaluate \/ Resume \/ Return

SpecCallbacks == InitHalted /\ [][NextCallbacks]_vars

\* positions, in the calls of the step just taken, of the calls of cb
CallsOf(cb) == { i \in 1..Len(calls) : calls[i].cb = cb }

\* onEvalResult runs with evalsPending already at the value the step leaves
\* and the eval-result buffer already cleared
EvalResultSeesUpdates ==
  \A i \in CallsOf("onEvalResult") :
    /\ last.seen[i].evalsPending = handler.evalsPending
    /\ last.seen[i].evalResultData = None

\* onBacktrace runs with the backtrace accumulator already reset
BacktraceSeesUpdates ==
  \A i \in CallsOf("onBacktrace") : last.seen[i].backtrace = << >>

\* onBreakpointHit runs with lastStopType already cleared
BreakpointHitSeesUpdates ==
  \A i \in CallsOf("onBreakpointHit") : last.seen[i].lastStopType = None

\* onExceptionHit runs with exceptionString already cleared
ExceptionHitSeesUpdates ==
  \A i \in CallsOf("onExceptionHit") : last.seen[i].exceptionString = None

\* C31: whenever a delegate callback runs, the handler has completed its own
\* updates for the frame in hand: evalsPending is decremented and the
\* eval-result buffer cleared when onEvalResult runs, the backtrace
\* accumulator is reset when onBacktrace runs, lastStopType is cleared when
\* onBreakpointHit runs and exceptionString is cleared when onExceptionHit runs
C31_UpdatesBeforeCallbacks ==
  /\ EvalResultSeesUpdates
  /\ BacktraceSeesUpdates
  /\ BreakpointHitSeesUpdates
  /\ ExceptionHitSeesUpdates

\* an EVAL_RESULT_END frame has answered the one evaluation outstanding and
\* onEvalResult has run
C31_Witness ==
  /\ last.op = "onMessage"
  /\ last.frame[1] = JERRY_DEBUGGER_EVAL_RESULT_END
  /\ CallsOf("onEvalResult") # {}
  /\ handler.evalsPending = 0

----------------------------------------------------------------------------
(* The parse of a script with a nested function (SpecParse) *)

\* the source of a script, a function inside it, breakpoint lines for the
\* frame on top, and the frames that end the function and the script
ParseFrames ==
  { <<JERRY_DEBUGGER_SOURCE_CODE_END, 97>>,
    <<JERRY_DEBUGGER_PARSE_FUNCTION, 2, 0, 0, 0, 1, 0, 0, 0>>,
    <<JERRY_DEBUGGER_BREAKPOINT_LIST, 5, 0, 0, 0>>,
    <<JERRY_DEBUGGER_BREAKPOINT_LIST, 7, 0, 0, 0, 5, 0, 0, 0>>,
    <<JERRY_DEBUGGER_BYTE_CODE_CP, 42, 0>>,
    <<JERRY_DEBUGGER_BYTE_CODE_CP, 43, 0>> }

NextParse == Receive(ParseFrames) \/ Return

SpecParse == InitConfigured /\ [][NextParse]_vars

\* the functions staged by a step: those staged before and the new one
StagedAfter(cp) ==
  MapSet(handler.newFunctions, cp, Len(parsedFunctions) + 1)

\* the staged functions that have a breakpoint on line l
StagedOn(staged, l) ==
  { staged[c] : c \in { x \in DOMAIN staged :
                          l \in DOMAIN parsedFunctions'[staged[x]].lines } }

\* the elements of a list, and the list has no element twice
Elements(list) == { list[j] : j \in 1..Len(list) }
NoRepeat(list) == Cardinality(Elements(list)) = Len(list)

\* C32: a BYTE_CODE_CP frame processed with no evaluation pending and a
\* non-empty parser stack pops the top frame and stages its function under
\* its byte-code pointer; if frames remain nothing else changes; if none
\* remains every staged function is in functions under its pointer and in
\* lineLists[nextScriptID] under each of its lines (and under no other),
\* nextScriptID has increased by one and newFunctions is empty
C32_ByteCodeCPStagesAndPromotes ==
  [][
    (/\ Delivered({JERRY_DEBUGGER_BYTE_CODE_CP})
     /\ Len(last'.frame) >= 3
     /\ handler.evalsPending = 0
     /\ handler.stack # << >>)
    =>
    /\ ~last'.threw
    /\ handler'.stack = SubSeq(handler.stack, 1, Len(handler.stack) - 1)
    /\ Len(parsedFunctions') = Len(parsedFunctions) + 1
    /\ SubSeq(breakpoints', 1, Len(breakpoints)) = breakpoints
    /\ parsedFunctions'[Len(parsedFunctions')].byteCodeCP
         = getUint16(TRUE, last'.frame, 1)
    /\ parsedFunctions'[Len(parsedFunctions')].scriptId
         = handler.stack[Len(handler.stack)].scriptId
    /\ DOMAIN parsedFunctions'[Len(parsedFunctions')].lines
         = Elements(handler.stack[Len(handler.stack)].lines)
    /\ Len(handler.stack) > 1 =>
         /\ handler' = [handler EXCEPT
                          !.stack = SubSeq(@, 1, Len(@) - 1),
                          !.newFunctions =
                            StagedAfter(getUint16(TRUE, last'.frame, 1))]
         /\ SubSeq(parsedFunctions', 1, Len(parsedFunctions)) = parsedFunctions
    /\ Len(handler.stack) = 1 =>
         /\ handler'.newFunctions = EmptyMap
         /\ handler'.nextScriptID = handler.nextScriptID + 1
         /\ DOMAIN handler'.functions
              = DOMAIN handler.functions
                  \cup DOMAIN StagedAfter(getUint16(TRUE, last'.frame, 1))
         /\ \A c \in DOMAIN StagedAfter(getUint16(TRUE, last'.frame, 1)) :
              handler'.functions[c]
                = StagedAfter(getUint16(TRUE, last'.frame, 1))[c]
         /\ \A c \in DOMAIN handler.functions :
              c \notin DOMAIN StagedAfter(getUint16(TRUE, last'.frame, 1))
                => handler'.functions[c] = handler.functions[c]
         /\ DOMAIN handler'.lineLists
              = DOMAIN handler.lineLists \cup {handler.nextScriptID}
         /\ \A s \in DOMAIN handler.lineLists :
              handler'.lineLists[s] = handler.lineLists[s]
         /\ \A l \in 0..8 :
              /\ l \in DOMAIN handler'.lineLists[handler.nextScriptID]
                   <=> StagedOn(StagedAfter(getUint16(TRUE, last'.frame, 1)), l) # {}
              /\ l \in DOMAIN handler'.lineLists[handler.nextScriptID] =>
                   /\ Elements(handler'.lineLists[handler.nextScriptID][l])
                        = StagedOn(StagedAfter(getUint16(TRUE, last'.frame, 1)), l)
                   /\ NoRepeat(handler'.lineLists[handler.nextScriptID][l])
         /\ DOMAIN handler'.lineLists[handler.nextScriptID] \subseteq 0..8
  ]_vars

\* the script's last BYTE_CODE_CP has promoted the function nested in it, 43,
\* and the script's own, 42, which share line 5
C32_Witness ==
  /\ last.op = "onMessage"
  /\ last.frame = <<JERRY_DEBUGGER_BYTE_CODE_CP, 42, 0>>
  /\ handler.nextScriptID = 2
  /\ handler.newFunctions = EmptyMap
  /\ DOMAIN handler.functions = {42, 43}
  /\ 1 \in DOMAIN handler.lineLists
  /\ DOMAIN handler.lineLists[1] = {5, 7}
  /\ Len(handler.lineLists[1][5]) = 2

----------------------------------------------------------------------------
(* Breakpoint lists (SpecLists) *)

\* a halted session in which a second script is being parsed: breakpoint
\* lists of one and two values, of a length that is not 1 + 4k and of the tag
\* alone, with and without an evaluation outstanding
ListFrames ==
  { <<JERRY_DEBUGGER_SOURCE_CODE_END, 97>>,
    <<JERRY_DEBUGGER_PARSE_FUNCTION, 2, 0, 0, 0, 1, 0, 0, 0>>,
    <<JERRY_DEBUGGER_BREAKPOINT_LIST, 5, 0, 0, 0>>,
    <<JERRY_DEBUGGER_BREAKPOINT_LIST, 7, 0, 0, 0, 5, 0, 0, 0>>,
    <<JERRY_DEBUGGER_BREAKPOINT_LIST, 5, 0, 0>>,
    <<JERRY_DEBUGGER_BREAKPOINT_LIST>>,
    <<JERRY_DEBUGGER_BREAKPOINT_OFFSET_LIST, 10, 0, 0, 0>>,
    <<JERRY_DEBUGGER_BREAKPOINT_OFFSET_LIST, 20, 1, 0, 0, 10, 0, 0, 0>>,
    <<JERRY_DEBUGGER_BREAKPOINT_OFFSET_LIST, 10, 0, 0, 0, 1>>,
    <<JERRY_DEBUGGER_EVAL_RESULT_END, 98, JERRY_DEBUGGER_EVAL_OK>> }

NextLists == Receive(ListFrames) \/ Evaluate \/ Return

SpecLists == InitHalted /\ [][NextLists]_vars

ListTags ==
  {JERRY_DEBUGGER_BREAKPOINT_LIST, JERRY_DEBUGGER_BREAKPOINT_OFFSET_LIST}

\* the length of the frame is 1 + 4k for some k >= 1
WellFormedList(frame) == Len(frame) % 4 = 1 /\ Len(frame) >= 5

\* the k values of a well-formed frame, four bytes each, low byte first
ListValues(frame) ==
  [k \in 1..((Len(frame) - 1) \div 4) |->
     frame[4 * k - 2] + 256 * frame[4 * k - 1] + 65536 * frame[4 * k]
       + 16777216 * frame[4 * k + 1]]

\* the step is a fatal error that leaves the parser frames as they were
ListRejected ==
  /\ last'.threw
  /\ handler'.stack = handler.stack

\* the step appends the values of the frame to the lines, or the offsets, of
\* the top parser frame and changes nothing else
ListAppended ==
  /\ ~last'.threw
  /\ handler.stack # << >>
  /\ handler' =
       IF last'.frame[1] = JERRY_DEBUGGER_BREAKPOINT_LIST
         THEN [handler EXCEPT !.stack[Len(handler.stack)].lines =
                                 @ \o ListValues(last'.frame)]
         ELSE [handler EXCEPT !.stack[Len(handler.stack)].offsets =
                                 @ \o ListValues(last'.frame)]

\* C33 as stated: a BREAKPOINT_LIST or BREAKPOINT_OFFSET_LIST frame whose
\* length is not 1 + 4k with k >= 1 is a fatal protocol error and appends
\* nothing to any parser frame; a well-formed one appends its k values, in
\* order, to the lines or offsets of the top parser frame only
C33_BreakpointListAlways ==
  [][
    Delivered(ListTags) =>
      IF WellFormedList(last'.frame) THEN ListAppended ELSE ListRejected
  ]_vars

\* C33 (amended): the same of a frame processed while no evaluation is
\* pending and, for the well-formed frame, while the parser stack is not
\* empty
C33_BreakpointListWhenAccepted ==
  [][
    (Delivered(ListTags) /\ handler.evalsPending = 0) =>
      /\ ~WellFormedList(last'.frame) => ListRejected
      /\ (WellFormedList(last'.frame) /\ handler.stack # << >>) => ListAppended
  ]_vars

\* two offsets have been appended to the frame of a function that lies on
\* top of the frame of its script, which has lines of its own
C33_Witness ==
  /\ last.op = "onMessage"
  /\ last.frame = <<JERRY_DEBUGGER_BREAKPOINT_OFFSET_LIST, 20, 1, 0, 0, 10, 0, 0, 0>>
  /\ ~last.threw
  /\ Len(handler.stack) = 2
  /\ handler.stack[1].lines = <<7, 5>>
  /\ handler.stack[1].offsets = << >>
  /\ handler.stack[2].offsets = <<276, 10>>

----------------------------------------------------------------------------
(* Eval results in several frames (SpecResults) *)

\* the answer to an evaluation in one frame, in two frames, and with an END
\* frame that carries one byte or none
ResultFrames ==
  { <<JERRY_DEBUGGER_EVAL_RESULT, 97>>,
    <<JERRY_DEBUGGER_EVAL_RESULT, 98>>,
    <<JERRY_DEBUGGER_EVAL_RESULT, JERRY_DEBUGGER_EVAL_OK>>,
    <<JERRY_DEBUGGER_EVAL_RESULT, 97, JERRY_DEBUGGER_EVAL_OK>>,
    <<JERRY_DEBUGGER_EVAL_RESULT_END, 98, JERRY_DEBUGGER_EVAL_OK>>,
    <<JERRY_DEBUGGER_EVAL_RESULT_END, JERRY_DEBUGGER_EVAL_OK>>,
    <<JERRY_DEBUGGER_EVAL_RESULT_END>> }

NextResults == Receive(ResultFrames) \/ Evaluate \/ Return

SpecResults == InitHalted /\ [][NextResults]_vars

\* the eval-result bytes accumulated once the frame of the step is added:
\* the payloads of the frames received since the last END frame
Accumulated ==
  (IF IsSome(handler.evalResultData) THEN Get(handler.evalResultData)
   ELSE << >>) \o Tail(last'.frame)

\* C34: when an EVAL_RESULT_END frame (its payload may be empty) ends a
\* sequence of EVAL_RESULT frames, the subtype given to onEvalResult and to
\* the pending request is the last of the accumulated bytes and the value is
\* the decoding of the accumulated bytes before it
C34_EvalResultFromAccumulatedBytes ==
  [][
    (Delivered({JERRY_DEBUGGER_EVAL_RESULT_END}) /\ Accumulated # << >>) =>
      /\ \E i \in 1..Len(calls') : calls'[i].cb = "onEvalResult"
      /\ \A i \in 1..Len(calls') :
           calls'[i].cb = "onEvalResult" =>
             /\ calls'[i].n = Accumulated[Len(Accumulated)]
             /\ calls'[i].s
                  = cesu8ToString(
                      Some(SubSeq(Accumulated, 1, Len(Accumulated) - 1)))
      /\ \A i \in 1..Len(settled') :
           settled'[i].kind = "eval" =>
             /\ settled'[i].n = Accumulated[Len(Accumulated)]
             /\ settled'[i].s
                  = cesu8ToString(
                      Some(SubSeq(Accumulated, 1, Len(Accumulated) - 1)))
  ]_vars

\* an END frame without payload has ended a result whose bytes, 'a' and the
\* subtype OK, came in an EVAL_RESULT frame
C34_Witness ==
  /\ last.op = "onMessage"
  /\ last.frame = <<JERRY_DEBUGGER_EVAL_RESULT_END>>
  /\ Len(calls) = 1
  /\ calls[1].cb = "onEvalResult"
  /\ calls[1].s = <<97>>
  /\ Len(settled) = 1
  /\ settled[1].kind = "eval"

----------------------------------------------------------------------------
(* The packets of sendClientSource (SpecSources) *)

\* sessions of every message size from 2, halted; the engine asks for a
\* source with a WAIT_FOR_SOURCE frame
InitSources ==
  \E size \in 2..MaxMessageSize :
    After(Halted(<<JERRY_DEBUGGER_CONFIGURATION, size, 2, 1,
                   JERRY_DEBUGGER_VERSION>>))

\* the file "f" with sources of zero to MaxExpression code units
SendClientSourceAny ==
  \E fileSourceCode \in PacketExpressions, plan \in SendPlans :
    Do("sendClientSource", fileSourceCode, 0, FALSE,
       sendClientSource(Start(plan), <<102>>, fileSourceCode))

NextSources ==
  \/ SendClientSourceAny
  \/ Receive({ <<JERRY_DEBUGGER_WAIT_FOR_SOURCE>> })
  \/ Return

SpecSources == InitSources /\ [][NextSources]_vars

\* the lengths of the packets, in order
Sizes(packets) == [i \in 1..Len(packets) |-> Len(packets[i])]

\* the packets evaluate builds in the current session, the transport
\* accepting, for an expression: the one handed to the transport and the
\* ones queued behind it
EvaluatePackets(expression) ==
  [i \in 1..Len(evaluate(Start(<<TRUE>>), expression).sent) |->
     evaluate(Start(<<TRUE>>), expression).sent[i].data]
    \o [i \in 1..(Len(evaluate(Start(<<TRUE>>), expression).h.requestQueue)
                    - Len(handler.requestQueue)) |->
          evaluate(Start(<<TRUE>>), expression)
            .h.requestQueue[Len(handler.requestQueue) + i].data]

\* an expression whose evaluate buffer (tag, length, subtype, bytes) is as
\* long as the sendClientSource buffer (tag, four bytes, name, NUL, source)
\* of the file "f" with the source
SameLength(fileSourceCode) ==
  [i \in 1..(Len(cesu8Encode(<<102, 0>> \o fileSourceCode)) - 1) |-> 97]

\* the packets are cut where evaluate cuts a buffer of the same length, are
\* tagged CLIENT_SOURCE and then CLIENT_SOURCE_PART, and each carries a byte
\* after its tag
CutAsEvaluate(packets, fileSourceCode) ==
  /\ Sizes(packets) = Sizes(EvaluatePackets(SameLength(fileSourceCode)))
  /\ packets # << >>
  /\ packets[1][1] = JERRY_DEBUGGER_CLIENT_SOURCE
  /\ \A i \in 2..Len(packets) :
       packets[i][1] = JERRY_DEBUGGER_CLIENT_SOURCE_PART
  /\ \A i \in 1..Len(packets) : Len(packets[i]) >= 2

\* C35: for every buffer length and every maxMessageSize of at least 2 the
\* packets of sendClientSource have the boundaries evaluate gives a buffer
\* of that length, the first tagged CLIENT_SOURCE and the others
\* CLIENT_SOURCE_PART, and every packet carries at least one byte after its
\* tag
C35_SourcePacketsAsEvaluate ==
  [][
    (last'.op = "sendClientSource" /\ last'.outcome # "rejected: state") =>
      CutAsEvaluate([i \in 1..Len(sent') |-> sent'[i].data], last'.frame)
  ]_vars

\* a source of seven buffer bytes has been sent in a session of message
\* size 4: the third packet is the tag alone
C35_Witness ==
  /\ last.op = "sendClientSource"
  /\ last.frame = << >>
  /\ handler.maxMessageSize = 4
  /\ Len(sent) = 3
  /\ sent[3].data = <<JERRY_DEBUGGER_CLIENT_SOURCE_PART>>

----------------------------------------------------------------------------
(* The count of pending evaluations (SpecResults) *)

\* the step is an evaluate command whose EVAL packet the transport accepted,
\* or that was queued behind the request in flight
HandedToEngine ==
  /\ last'.op = "evaluate"
  /\ \/ sent' # << >> /\ sent'[1].accepted
     \/ Len(handler'.requestQueue) > Len(handler.requestQueue)

\* the change of the number of evaluations handed to the engine and not yet
\* answered by an EVAL_RESULT_END frame
OutstandingChange ==
  (IF HandedToEngine THEN 1 ELSE 0)
    - (IF Delivered({JERRY_DEBUGGER_EVAL_RESULT_END}) THEN 1 ELSE 0)

\* C36: under every interleaving of evaluate calls, send outcomes and
\* inbound frames evalsPending is never negative and is the number of
\* evaluate commands handed to the engine for which no EVAL_RESULT_END has
\* been processed: it is 0 when the program first halts and every step
\* changes it as it changes that number
C36_EvalsPendingCountsOutstanding ==
  /\ handler.evalsPending = 0
  /\ [][
       /\ handler'.evalsPending >= 0
       /\ handler'.evalsPending = handler.evalsPending + OutstandingChange
     ]_vars

\* the transport has refused the only packet of an evaluate command and an
\* evaluation is counted as pending
C36_Witness ==
  /\ last.op = "evaluate"
  /\ last.outcome = "rejected: submit"
  /\ Len(sent) = 1
  /\ ~sent[1].accepted
  /\ handler.requestQueue = << >>
  /\ handler.evalsPending = 1

----------------------------------------------------------------------------
(* Fragmented commands under every message size (SpecSizes) *)

\* a handler that has received no frame yet, and halted sessions whose
\* CONFIGURATION frame sets every message size from 0
InitSizes ==
  \/ /\ InitIdle
     /\ serial = SerialClient(<< >>)
     /\ applied = NoCall
  \/ \E size \in 0..MaxMessageSize :
       After(Halted(<<JERRY_DEBUGGER_CONFIGURATION, size, 2, 1,
                      JERRY_DEBUGGER_VERSION>>))

SizeFrames ==
  { <<JERRY_DEBUGGER_WAIT_FOR_SOURCE>>,
    <<JERRY_DEBUGGER_EVAL_RESULT_END, 98, JERRY_DEBUGGER_EVAL_OK>> }

NextSizes ==
  \/ Evaluate
  \/ SendClientSourceAny
  \/ Receive(SizeFrames)
  \/ Return

SpecSizes == InitSizes /\ [][NextSizes]_vars

\* C37: evaluate and sendClientSource terminate, after handing finitely many
\* packets to the transport, for every expression or source and every
\* maxMessageSize a CONFIGURATION frame can set, and also when called before
\* any CONFIGURATION frame has been received
C37_FragmentedCommandsTerminate ==
  [][
    last'.op \in {"evaluate", "sendClientSource"} => ~hung'
  ]_vars

\* evaluate has been called in a halted session whose CONFIGURATION frame set
\* the message size 1 and has not returned
C37_Witness ==
  /\ last.op = "evaluate"
  /\ handler.maxMessageSize = 1
  /\ IsSome(handler.lastBreakpointHit)
  /\ hung

----------------------------------------------------------------------------
(* Parser frames during an evaluation (SpecIngest) *)

\* the frames of a script with a named function, and the answer to an
\* evaluation
IngestFrames ==
  { <<JERRY_DEBUGGER_SOURCE_CODE_NAME_END, 102>>,
    <<JERRY_DEBUGGER_SOURCE_CODE_END, 97>>,
    <<JERRY_DEBUGGER_FUNCTION_NAME_END, 103>>,
    <<JERRY_DEBUGGER_PARSE_FUNCTION, 2, 0, 0, 0, 1, 0, 0, 0>>,
    <<JERRY_DEBUGGER_BREAKPOINT_LIST, 5, 0, 0, 0>>,
    <<JERRY_DEBUGGER_BYTE_CODE_CP, 43, 0>>,
    <<JERRY_DEBUGGER_EVAL_RESULT_END, 98, JERRY_DEBUGGER_EVAL_OK>> }

NextIngest == Receive(IngestFrames) \/ Evaluate \/ Return

SpecIngest == InitHalted /\ [][NextIngest]_vars

----------------------------------------------------------------------------
(* Commands the transport rejects (SpecRequests) *)

\* the commands that change the session state they are about
StatefulCommands ==
  {"stepOver", "stepInto", "stepOut", "resume", "evaluate", "updateBreakpoint",
   "sendClientSource"}

\* the step is one of these commands and the transport has refused its packet
TransportRejected ==
  /\ last'.op \in StatefulCommands
  /\ sent' # << >>
  /\ ~sent'[1].accepted

\* the command fails for its caller
FailsForCaller == last'.outcome = "rejected: submit"

\* the session state the commands are about is what it was
SessionStateKept ==
  /\ handler'.lastBreakpointHit = handler.lastBreakpointHit
  /\ handler'.lastStopType = handler.lastStopType
  /\ handler'.evalsPending = handler.evalsPending
  /\ handler'.activeBreakpoints = handler.activeBreakpoints
  /\ \A b \in 1..Len(breakpoints) :
       breakpoints'[b].activeIndex = breakpoints[b].activeIndex
  /\ handler'.waitForSourceEnabled = handler.waitForSourceEnabled

NoResumeCallback == \A i \in 1..Len(calls') : calls'[i].cb # "onResume"

\* C39: when the transport rejects a command the command fails for its
\* caller and the session state is what it was before the command
\* (lastBreakpointHit and lastStopType after a step or resume, evalsPending
\* after evaluate, activeIndex and the active breakpoints after
\* updateBreakpoint, waitForSourceEnabled after sendClientSource), and
\* onResume is not invoked
C39_RejectedSendChangesNothing ==
  [][
    TransportRejected =>
      /\ FailsForCaller
      /\ SessionStateKept
      /\ NoResumeCallback
  ]_vars

\* the transport has refused the packet of resume: the command failed, the
\* handler no longer holds the breakpoint hit, and onResume was invoked
C39_Witness ==
  /\ last.op = "resume"
  /\ last.outcome = "rejected: submit"
  /\ Len(sent) = 1
  /\ ~sent[1].accepted
  /\ ~IsSome(handler.lastBreakpointHit)
  /\ \E i \in 1..Len(calls) : calls[i].cb = "onResume"

----------------------------------------------------------------------------
(* Fragmented commands on a transport that refuses some packets *)
(* (SpecRefusals)                                                *)

\* the answers of the transport to the sends of one call, one by one
FragmentPlans == [1..MaxFragments -> BOOLEAN]

\* "foobar" evaluated in a session of message size 6: three packets
EvaluateFragments ==
  \E expression \in LongExpressions, plan \in FragmentPlans :
    Do("evaluate", expression, 0, FALSE, evaluate(Start(plan), expression))

\* the file "f" with the source "foobar": three packets
SendSourceFragments ==
  \E fileSourceCode \in LongExpressions, plan \in FragmentPlans :
    Do("sendClientSource", fileSourceCode, 0, FALSE,
       sendClientSource(Start(plan), <<102>>, fileSourceCode))

RefusalFrames ==
  { <<JERRY_DEBUGGER_WAIT_FOR_SOURCE>>,
    <<JERRY_DEBUGGER_EVAL_RESULT_END, 98, JERRY_DEBUGGER_EVAL_OK>> }

NextRefusals ==
  \/ EvaluateFragments
  \/ SendSourceFragments
  \/ Receive(RefusalFrames)
  \/ Return

SpecRefusals == InitFragments /\ [][NextRefusals]_vars

\* the step is a fragmented evaluate or sendClientSource one of whose packets
\* the transport has refused
FragmentRefused ==
  /\ last'.op \in {"evaluate", "sendClientSource"}
  /\ Len(Built) > 1
  /\ \E i \in 1..Len(sent') : ~sent'[i].accepted

\* nothing of the command follows the refused packet: it is the last packet
\* handed to the transport and none is queued
NothingAfterRefusal ==
  /\ \A i \in 1..Len(sent') : ~sent'[i].accepted => i = Len(sent')
  /\ Len(handler'.requestQueue) = Len(handler.requestQueue)

\* C40: the completion of a fragmented sendClientSource or evaluate succeeds
\* only if the transport accepted every packet of the command: if send
\* returns false for a fragment the completion fails and no later fragment
\* of the command is handed to the transport
C40_RefusedFragmentFailsCommand ==
  [][
    FragmentRefused =>
      /\ last'.outcome = "rejected: submit"
      /\ NothingAfterRefusal
  ]_vars

\* the transport has refused the first of the three packets of a source and
\* accepted the other two: the promise returned is resolved
C40_Witness ==
  /\ last.op = "sendClientSource"
  /\ Len(sent) = 3
  /\ ~sent[1].accepted
  /\ sent[2].accepted
  /\ sent[3].accepted
  /\ last.outcome = "resolved"

====
